---- MODULE Spec2Model ----
(***************************************************************************)
(* ESPWiFi secure-boot provisioning scripts (src/scripts/*.py).            *)
(*                                                                         *)
(* The scripts are single-threaded command sequences around the vendor     *)
(* tools.  The model has one run at a time: `argv` holds the entry point   *)
(* and its arguments, `files`/`device` are the environment the run reads   *)
(* and changes, `pc` is the position inside the entry point, `locals` its  *)
(* local variables, `cmds` the external commands invoked so far, `globs`   *)
(* the number of glob scans performed and `exit` the process exit status.  *)
(* `summary` is the stdout of the last `espefuse summary` command and      *)
(* `info` the value show_device_info computed from it.                     *)
(*                                                                         *)
(* Text is modelled as sequences of one-character strings so that Python's *)
(* `in`, lower(), split() and strip() are computed, not assumed.           *)
(***************************************************************************)
EXTENDS Integers, Sequences, FiniteSets, TLC

VARIABLES argv, files, device, summary, info, pc, locals, cmds, globs, exit

vars == <<argv, files, device, summary, info, pc, locals, cmds, globs, exit>>

(***************************************************************************)
(* Bounds of the model (not program constants).                            *)
(***************************************************************************)
MaxLines == 3        \* lines of a summary text in the parsing specification

(***************************************************************************)
(* Python None / True / False of an Optional[bool], kept as strings so     *)
(* that the three values can be compared with each other.                  *)
(***************************************************************************)
None == "None"
PyTrue == "True"
PyFalse == "False"

\* the value of exit while the process has not ended (exit statuses are 0..255)
NotExited == -1

(***************************************************************************)
(* Text helpers: str.lower, `p in s`, str.strip, str.split.                *)
(***************************************************************************)
UPPER == <<"A","B","C","D","E","F","G","H","I","J","K","L","M","N","O","P","Q","R","S","T","U","V","W","X","Y","Z">>
LOWER == <<"a","b","c","d","e","f","g","h","i","j","k","l","m","n","o","p","q","r","s","t","u","v","w","x","y","z">>

UpperSet == {UPPER[i] : i \in 1..26}

LowerMap == [c \in UpperSet |-> LOWER[CHOOSE i \in 1..26 : UPPER[i] = c]]

\* str.lower()
ToLower(s) == [i \in 1..Len(s) |-> IF s[i] \in UpperSet THEN LowerMap[s[i]] ELSE s[i]]

\* p occurs in s at offset i (0-based)
MatchAt(p, s, i) == /\ i + Len(p) <= Len(s)
                    /\ \A j \in 1..Len(p) : s[i + j] = p[j]

\* Python `p in s`
IsSubstr(p, s) == \E i \in 0..(Len(s) - Len(p)) : MatchAt(p, s, i)

\* offset of the first occurrence of p in s (0-based), Len(s) when there is none
FirstAt(p, s) == IF IsSubstr(p, s)
                 THEN CHOOSE i \in 0..(Len(s) - Len(p)) :
                        /\ MatchAt(p, s, i)
                        /\ \A k \in 0..(i - 1) : ~MatchAt(p, s, k)
                 ELSE Len(s)

\* s.split(p)[1] when p occurs in s: the text between the first occurrence of
\* p and the next one (or the end of s)
SplitSecond(p, s) == LET rest == SubSeq(s, FirstAt(p, s) + Len(p) + 1, Len(s))
                     IN  SubSeq(rest, 1, FirstAt(p, rest))

RECURSIVE LStrip(_)
LStrip(s) == IF s # <<>> /\ Head(s) = " " THEN LStrip(Tail(s)) ELSE s

RECURSIVE RStrip(_)
RStrip(s) == IF s # <<>> /\ s[Len(s)] = " " THEN RStrip(SubSeq(s, 1, Len(s) - 1)) ELSE s

\* str.strip()
Strip(s) == RStrip(LStrip(s))

\* s.split()[0] of a stripped, non-empty s: the first whitespace-delimited word
FirstWord(s) == SubSeq(s, 1, FirstAt(<<" ">>, s))

(***************************************************************************)
(* The substrings show_device_info looks for in a lower-cased line.        *)
(***************************************************************************)
P_detecting == <<"d","e","t","e","c","t","i","n","g"," ","c","h","i","p"," ","t","y","p","e">>
P_sbe == <<"s","e","c","u","r","e","_","b","o","o","t","_","e","n">>
P_crypt == <<"s","p","i","_","b","o","o","t","_","c","r","y","p","t","_","c","n","t">>
P_mac == <<"m","a","c"," ","(","b","l","o","c","k","1",")">>
P_false == <<"="," ","f","a","l","s","e">>
P_0 == <<"="," ","0">>
P_0b0 == <<"="," ","0","b","0">>
P_true == <<"="," ","t","r","u","e">>
P_1 == <<"="," ","1">>
P_0b1 == <<"="," ","0","b","1">>
P_disable == <<"="," ","d","i","s","a","b","l","e">>
P_enable == <<"="," ","e","n","a","b","l","e">>
P_3 == <<"="," ","3">>
P_eq == <<"=">>
P_colon == <<":">>
Dots == <<".",".",".">>

(***************************************************************************)
(* Lines an `espefuse summary` output is made of in the model.             *)
(***************************************************************************)
N_SBE == <<"S","E","C","U","R","E","_","B","O","O","T","_","E","N"," ","(","B","L","O","C","K","0",")">>
N_CRYPT == <<"S","P","I","_","B","O","O","T","_","C","R","Y","P","T","_","C","N","T"," ","(","B","L","O","C","K","0",")">>
N_MAC == <<"M","A","C"," ","(","B","L","O","C","K","1",")">>
N_REVOKE == <<"S","E","C","U","R","E","_","B","O","O","T","_","K","E","Y","_","R","E","V","O","K","E","0"," ","(","B","L","O","C","K","0",")">>
V_False == <<"F","a","l","s","e">>
V_True == <<"T","r","u","e">>
V_Disable == <<"D","i","s","a","b","l","e">>
V_Enable == <<"E","n","a","b","l","e">>
V_0b1 == <<"0","b","1">>
V_1 == <<"1">>
V_3 == <<"3">>
V_7 == <<"7">>
V_odd == <<"M","a","y","b","e">>
V_mac == <<"8","c",":","b","f"," ","(","O","K",")">>
V_esp32c3 == <<"E","S","P","3","2","-","C","3">>

\* "NAME (BLOCKn) = value"
FuseLine(name, value) == name \o <<" ", "=", " ">> \o value

L_chip == <<"D","e","t","e","c","t","i","n","g"," ","c","h","i","p"," ","t","y","p","e",".",".","."," ">> \o V_esp32c3
L_sbe_false == FuseLine(N_SBE, V_False)
L_sbe_true == FuseLine(N_SBE, V_True)
L_sbe_1 == FuseLine(N_SBE, V_1)
L_sbe_0b1 == FuseLine(N_SBE, V_0b1)
L_sbe_odd == FuseLine(N_SBE, V_odd)
L_crypt_disable == FuseLine(N_CRYPT, V_Disable)
L_crypt_enable == FuseLine(N_CRYPT, V_Enable)
L_crypt_1 == FuseLine(N_CRYPT, V_1)
L_crypt_3 == FuseLine(N_CRYPT, V_3)
L_crypt_7 == FuseLine(N_CRYPT, V_7)
L_mac == FuseLine(N_MAC, V_mac)
L_mac_empty == N_MAC \o <<" ", "=">>
L_revoke_true == FuseLine(N_REVOKE, V_True)

SbeLines == {L_sbe_false, L_sbe_true, L_sbe_1, L_sbe_0b1, L_sbe_odd}
CryptLines == {L_crypt_disable, L_crypt_enable, L_crypt_1, L_crypt_3, L_crypt_7}
OtherLines == {L_chip, L_mac, L_mac_empty, L_revoke_true}
LineVocab == SbeLines \cup CryptLines \cup OtherLines

SeqsUpTo(S, n) == UNION {[1..k -> S] : k \in 0..n}

(***************************************************************************)
(* show_device_info: the classification of one summary line.               *)
(***************************************************************************)
\* SecureBootValue without the "= false" token
SecureBootValue_NoFalseToken(line_lower, cur) ==
    IF \/ IsSubstr(P_0, line_lower)
       \/ IsSubstr(P_0b0, line_lower)
    THEN PyFalse
    ELSE IF \/ IsSubstr(P_true, line_lower)
            \/ IsSubstr(P_1, line_lower)
            \/ IsSubstr(P_0b1, line_lower)
         THEN PyTrue
         ELSE cur

\* the `elif "secure_boot_en" in line_lower:` body; cur is the value so far
SecureBootValue(line_lower, cur) ==
    IF \/ IsSubstr(P_false, line_lower)
       \/ IsSubstr(P_0, line_lower)
       \/ IsSubstr(P_0b0, line_lower)
    THEN PyFalse
    ELSE IF \/ IsSubstr(P_true, line_lower)
            \/ IsSubstr(P_1, line_lower)
            \/ IsSubstr(P_0b1, line_lower)
         THEN PyTrue
         ELSE cur

\* the `elif "spi_boot_crypt_cnt" in line_lower:` body
FlashEncryptionValue(line_lower, cur) ==
    IF \/ IsSubstr(P_disable, line_lower)
       \/ IsSubstr(P_0, line_lower)
    THEN PyFalse
    ELSE IF \/ IsSubstr(P_enable, line_lower)
            \/ IsSubstr(P_1, line_lower)
            \/ IsSubstr(P_3, line_lower)
         THEN PyTrue
         ELSE cur

\* the values the fields have before the first line is looked at
\* (`secure_boot_enabled = False`, `flash_encryption = False`)
ParseStart == [status |-> "return",
               chip_type |-> <<"U","n","k","n","o","w","n">>,
               secure_boot_enabled |-> PyFalse,
               flash_encryption |-> PyFalse,
               mac_address |-> <<"U","n","k","n","o","w","n">>]

\* one iteration of `for line in output.split("\n")`
ParseLine(st, line) ==
    LET line_lower == ToLower(line) IN
    IF st.status # "return" THEN st
    ELSE IF IsSubstr(P_detecting, line_lower)
    THEN IF IsSubstr(Dots, line)
         THEN [st EXCEPT !.chip_type = Strip(SplitSecond(Dots, line))]
         ELSE st
    ELSE IF IsSubstr(P_sbe, line_lower)
    THEN [st EXCEPT !.secure_boot_enabled = SecureBootValue(line_lower, @)]
    ELSE IF IsSubstr(P_crypt, line_lower)
    THEN [st EXCEPT !.flash_encryption = FlashEncryptionValue(line_lower, @)]
    ELSE IF IsSubstr(P_mac, line_lower) /\ IsSubstr(P_eq, line_lower)
    THEN LET part == Strip(SplitSecond(P_eq, line)) IN
         IF part = <<>>
         THEN [st EXCEPT !.status = "IndexError"]    \* "".split()[0]
         ELSE IF IsSubstr(P_colon, FirstWord(part))
              THEN [st EXCEPT !.mac_address = FirstWord(part)]
              ELSE st
    ELSE st

RECURSIVE ParseLines(_, _)
ParseLines(st, lines) ==
    IF lines = <<>> THEN st ELSE ParseLines(ParseLine(st, Head(lines)), Tail(lines))

\* the parsing loop of show_device_info over the stdout of `espefuse summary`
ParseSummary(lines) == ParseLines(ParseStart, lines)

\* the value of a show_device_info call before the summary command has run
NoInfo == [status |-> "none", chip_type |-> <<>>, secure_boot_enabled |-> None,
           flash_encryption |-> None, mac_address |-> <<>>]

\* burn_utils.show_device_info and burn_efuse.show_device_info: result is the
\* outcome of the summary command ("ok", "nonzero", "timeout")
ShowDeviceInfo(result, lines) ==
    IF result = "ok" THEN ParseSummary(lines)
    ELSE [NoInfo EXCEPT !.status = "SystemExit"]


(***************************************************************************)
(* Key resolution (burn_utils.signing_key_path and its helpers).           *)
(*                                                                         *)
(* platformio.ini and the SDK config files are sequences of lines; a line  *)
(* is a record of what the code looks at: its kind and the text after the  *)
(* `=` (or the whole stripped line for a plain line).  A path is a string. *)
(***************************************************************************)
Missing == <<[kind |-> "missing", value |-> ""]>>   \* content of a file that does not exist

PROJECT_DIR == "PROJECT_DIR/"
AbsNames == {"/keys/abs.pem"}        \* the absolute path values of the model
DefaultKey == PROJECT_DIR \o "esp32_secure_boot.pem"

\* PROJECT_DIR / value, and Path(value) for an absolute value
ProjectPath(value) == PROJECT_DIR \o value
KeyPathOf(value) == IF value \in AbsNames THEN value ELSE ProjectPath(value)

IniLine(kind, value) == [kind |-> kind, value |-> value]

\* the stripped text of a platformio.ini line read as a multi-line value; only
\* a plain line can name a file
IniText(line) == IF line.kind = "text" THEN line.value ELSE "<not a file name>"

\* _get_sdkconfig_path: the while loop from index i (1-based) on
RECURSIVE GetSdkconfigLoop(_, _, _, _)
GetSdkconfigLoop(lines, i, in_target_env, sdkconfigs) ==
    IF i > Len(lines) THEN None
    ELSE IF lines[i].kind = "target"
    THEN GetSdkconfigLoop(lines, i + 1, TRUE, sdkconfigs)
    ELSE IF lines[i].kind = "section" /\ in_target_env
    THEN None
    ELSE IF in_target_env /\ lines[i].kind = "sdkconfig"
    THEN LET multi == lines[i].value = "" /\ i + 1 <= Len(lines)
             value == IF multi THEN IniText(lines[i + 1]) ELSE lines[i].value
             next == IF multi THEN i + 2 ELSE i + 1
         IN  IF value # "" /\ value \in DOMAIN sdkconfigs /\ sdkconfigs[value] # Missing
             THEN value
             ELSE GetSdkconfigLoop(lines, next, in_target_env, sdkconfigs)
    ELSE GetSdkconfigLoop(lines, i + 1, in_target_env, sdkconfigs)

\* _get_sdkconfig_path(env_name): name of the SDK config file, or None
GetSdkconfigPath(fs) ==
    IF fs.ini = Missing THEN None
    ELSE GetSdkconfigLoop(fs.ini, 1, FALSE, fs.sdkconfigs)

\* _parse_sdkconfig_key_path: first CONFIG_SECURE_BOOT_SIGNING_KEY line with a
\* non-empty value
RECURSIVE ParseSdkconfigKeyPath(_)
ParseSdkconfigKeyPath(lines) ==
    IF lines = <<>> THEN None
    ELSE IF Head(lines).kind = "key" /\ Head(lines).value # ""
    THEN KeyPathOf(Head(lines).value)
    ELSE ParseSdkconfigKeyPath(Tail(lines))

\* signing_key_path()
SigningKeyPath(fs) ==
    LET sdkconfig_path == GetSdkconfigPath(fs) IN
    IF sdkconfig_path # None /\ ParseSdkconfigKeyPath(fs.sdkconfigs[sdkconfig_path]) # None
    THEN ParseSdkconfigKeyPath(fs.sdkconfigs[sdkconfig_path])
    ELSE DefaultKey

\* main(): `key_arg = Path(args.key) if args.key else None`
KeyArg(key) == IF key # None /\ key # "" THEN key ELSE None

\* ResolveKey with the operands of `or` swapped: a configured key wins
ResolveKey_ConfigFirst(key_path, fs) ==
    IF SigningKeyPath(fs) # DefaultKey THEN SigningKeyPath(fs)
    ELSE IF key_path # None THEN key_path ELSE DefaultKey

\* `key = key_path or signing_key_path()`
ResolveKey(key_path, fs) == IF key_path # None THEN key_path ELSE SigningKeyPath(fs)


(***************************************************************************)
(* Key file validation, binaries and the pre-burn gate (burn_utils).       *)
(*                                                                         *)
(* A key file is [exists, readable, decodable, markers]: decodable is      *)
(* whether read_text() succeeds, markers which of "-----BEGIN" and         *)
(* "-----END" occur in its text.  A binary is [exists, signed_with,        *)
(* mtime]: the key its signature block was made with (None when unsigned)  *)
(* and its modification time in seconds.                                   *)
(***************************************************************************)
TimestampTolerance == 30

NoKeyFile == [exists |-> FALSE, readable |-> FALSE, decodable |-> FALSE, markers |-> {}]
PemKeyFile == [exists |-> TRUE, readable |-> TRUE, decodable |-> TRUE, markers |-> {"BEGIN", "END"}]

KeyFileAt(fs, path) == IF path \in DOMAIN fs.keys THEN fs.keys[path] ELSE NoKeyFile

\* validate_key_file that asks for one of the two markers only
ValidateKeyFile_EitherMarker(kf) ==
    IF ~kf.exists THEN FALSE
    ELSE IF ~kf.readable THEN FALSE
    ELSE IF ~kf.decodable THEN FALSE
    ELSE IF "BEGIN" \notin kf.markers /\ "END" \notin kf.markers THEN FALSE
    ELSE TRUE

\* validate_key_file(key_path), on the key file found at key_path: exists,
\* readable say what key_path.exists() and os.access(key_path, os.R_OK)
\* return, decodable whether read_text() returns rather than raises, and
\* markers which of "-----BEGIN" and "-----END" occur in the text
ValidateKeyFile(kf) ==
    IF ~kf.exists THEN FALSE
    ELSE IF ~kf.readable THEN FALSE
    ELSE IF ~kf.decodable THEN FALSE
    ELSE IF "BEGIN" \notin kf.markers \/ "END" \notin kf.markers THEN FALSE
    ELSE TRUE

\* verify_binaries_exist(): the names of the missing binaries
MissingBinaries(fs) ==
    (IF fs.bootloader.exists THEN <<>> ELSE <<"bootloader">>)
        \o (IF fs.firmware.exists THEN <<>> ELSE <<"firmware">>)

\* what `python -m espsecure verify-signature --keyfile key binary` does:
\* exit 0 exactly when the tool runs, can load the key and the binary carries
\* a signature made with that key
VerifySignatureCommand(fs, key, bin) ==
    IF fs.espsecure = "no_python" THEN "FileNotFoundError"
    ELSE IF /\ fs.espsecure = "ok"
            /\ ValidateKeyFile(KeyFileAt(fs, key))
            /\ bin.exists
            /\ bin.signed_with = key
         THEN "ok"
         ELSE "CalledProcessError"

\* verify_signed_binaries._verify(path)
VerifyOne(fs, key, bin) == VerifySignatureCommand(fs, key, bin) = "ok"

\* VerifySignedBinaries with `_verify(bootloader) and _verify(firmware)`:
\* the firmware is not verified once the bootloader failed
VerifySignedBinaries_ShortCircuit(fs, key) ==
    IF MissingBinaries(fs) # <<>>
    THEN [ok |-> FALSE, cmds |-> <<>>]
    ELSE IF ~VerifyOne(fs, key, fs.bootloader)
         THEN [ok |-> FALSE, cmds |-> <<"verify-signature bootloader">>]
         ELSE [ok |-> VerifyOne(fs, key, fs.firmware),
               cmds |-> <<"verify-signature bootloader", "verify-signature firmware">>]

\* verify_signed_binaries(key_path): the result and the commands it invoked
VerifySignedBinaries(fs, key) ==
    IF MissingBinaries(fs) # <<>>
    THEN [ok |-> FALSE, cmds |-> <<>>]
    ELSE LET boot_ok == VerifyOne(fs, key, fs.bootloader)
             fw_ok == VerifyOne(fs, key, fs.firmware)
         IN  [ok |-> boot_ok /\ fw_ok,
              cmds |-> <<"verify-signature bootloader", "verify-signature firmware">>]

Abs(n) == IF n < 0 THEN -n ELSE n

\* VerifyBinaryTimestamps failing instead of warning beyond the tolerance
VerifyBinaryTimestamps_FailOnDrift(fs) ==
    IF MissingBinaries(fs) # <<>> THEN FALSE
    ELSE IF Abs(fs.bootloader.mtime - fs.firmware.mtime) > TimestampTolerance
         THEN FALSE
         ELSE TRUE

\* verify_binary_timestamps(); stat() of a file that exists does not fail
VerifyBinaryTimestamps(fs) ==
    IF MissingBinaries(fs) # <<>> THEN FALSE
    ELSE IF Abs(fs.bootloader.mtime - fs.firmware.mtime) > TimestampTolerance
         THEN TRUE      \* warn but don't fail
         ELSE TRUE

\* validate_pre_burn_checks: `checks_passed` after the three checks
ChecksPassed(check1, check2, check3) ==
    LET after1 == IF ~check1 THEN FALSE ELSE TRUE
        after2 == IF ~check2 THEN FALSE ELSE after1
        after3 == IF ~check3 THEN FALSE ELSE after2
    IN  after3

\* ValidatePreBurnChecks leaving the signature verification out
ValidatePreBurnChecks_KeyOnly(fs, key) ==
    LET check1 == ValidateKeyFile(KeyFileAt(fs, key))
        check3 == VerifyBinaryTimestamps(fs)
    IN  [passed |-> check1,
         key_ok |-> check1, sig_ok |-> TRUE, ts_ok |-> check3,
         cmds |-> <<>>]

\* validate_pre_burn_checks(key_path): the result, the outcome of each check
\* and the commands invoked
ValidatePreBurnChecks(fs, key) ==
    LET check1 == ValidateKeyFile(KeyFileAt(fs, key))
        check2 == VerifySignedBinaries(fs, key)
        check3 == VerifyBinaryTimestamps(fs)
    IN  [passed |-> ChecksPassed(check1, check2.ok, check3),
         key_ok |-> check1, sig_ok |-> check2.ok, ts_ok |-> check3,
         cmds |-> check2.cmds]

(***************************************************************************)
(* Port resolution.  devs is the set of device paths that exist.           *)
(***************************************************************************)
GlobPatterns == <<"/dev/ttyUSB*", "/dev/cu.usb*", "/dev/cu.SLAB*">>

DevPaths == {"/dev/ttyUSB0", "/dev/cu.usbserial-1", "/dev/cu.SLAB_USBtoUART", "/dev/ttyACM0"}

\* the device paths of the model a pattern matches
GlobMatches(pattern) ==
    CASE pattern = "/dev/ttyUSB*" -> {"/dev/ttyUSB0"}
      [] pattern = "/dev/cu.usb*" -> {"/dev/cu.usbserial-1"}
      [] pattern = "/dev/cu.SLAB*" -> {"/dev/cu.SLAB_USBtoUART"}
      [] OTHER -> {}

\* glob.glob(pattern)
Glob(pattern, devs) ==
    LET found == GlobMatches(pattern) \cap devs
    IN  IF found = {} THEN <<>> ELSE <<CHOOSE d \in found : TRUE>>

\* list(chain(glob(...), glob(...), glob(...)))
CommonPorts(devs) ==
    Glob(GlobPatterns[1], devs) \o Glob(GlobPatterns[2], devs) \o Glob(GlobPatterns[3], devs)

\* truth value of an Optional[str]
Truthy(v) == v # None /\ v # ""

\* ResolvePort falling back to auto-detection when the given port is absent
ResolvePort_FallBackToGlob(port, devs) ==
    IF Truthy(port) /\ port \in devs
    THEN [status |-> "return", port |-> port, globs |-> 0]
    ELSE IF CommonPorts(devs) # <<>>
         THEN [status |-> "return", port |-> CommonPorts(devs)[1], globs |-> Len(GlobPatterns)]
         ELSE [status |-> "SystemExit", port |-> None, globs |-> Len(GlobPatterns)]

\* ResolvePort assuming a default port when auto-detection finds nothing
ResolvePort_DefaultPort(port, devs) ==
    IF Truthy(port)
    THEN IF port \notin devs
         THEN [status |-> "SystemExit", port |-> None, globs |-> 0]
         ELSE [status |-> "return", port |-> port, globs |-> 0]
    ELSE IF CommonPorts(devs) # <<>>
         THEN [status |-> "return", port |-> CommonPorts(devs)[1], globs |-> Len(GlobPatterns)]
         ELSE [status |-> "return", port |-> "/dev/ttyUSB0", globs |-> Len(GlobPatterns)]

\* burn_utils.resolve_port(port)
ResolvePort(port, devs) ==
    IF Truthy(port)
    THEN IF port \notin devs
         THEN [status |-> "SystemExit", port |-> None, globs |-> 0]
         ELSE [status |-> "return", port |-> port, globs |-> 0]
    ELSE IF CommonPorts(devs) # <<>>
         THEN [status |-> "return", port |-> CommonPorts(devs)[1], globs |-> Len(GlobPatterns)]
         ELSE [status |-> "SystemExit", port |-> None, globs |-> Len(GlobPatterns)]

\* the port detection at the head of burn_efuse (burn_efuse.py, espwifiSecure.py)
ResolvePortInline(port, devs) ==
    IF port = None
    THEN IF CommonPorts(devs) # <<>>
         THEN [status |-> "return", port |-> CommonPorts(devs)[1], globs |-> Len(GlobPatterns)]
         ELSE [status |-> "SystemExit", port |-> None, globs |-> Len(GlobPatterns)]
    ELSE [status |-> "return", port |-> port, globs |-> 0]

(***************************************************************************)
(* The device.  Its eFuses are one-way: secure_boot_en and flash_crypt are *)
(* booleans, key_block is "empty" or "written".  The stdout of the         *)
(* espefuse commands is a function of the fuses.                           *)
(***************************************************************************)
S_Detecting == <<"D","e","t","e","c","t","i","n","g"," ","c","h","i","p"," ","t","y","p","e">>
S_Chip == <<"C","h","i","p">>
P_chip_type == <<"c","h","i","p"," ","t","y","p","e">>

\* stdout of `espefuse summary`, as lines
SummaryText(dev) ==
    <<L_chip,
      FuseLine(N_SBE, IF dev.secure_boot_en THEN V_True ELSE V_False),
      FuseLine(N_CRYPT, IF dev.flash_crypt THEN V_Enable ELSE V_Disable),
      L_mac>>

\* stdout of `espefuse dump_blocks BLOCK_KEY0`, as whitespace-separated words
ZeroWord == "00000000"
DumpText(dev) ==
    <<"BLOCK_KEY0">> \o
    (IF dev.key_block = "written"
     THEN <<"5e0a11c3", ZeroWord, "9d2b77f0", "0c4e61aa", "b8d3f210", "7a915c0e", "e2f4a6b8", "13579bdf">>
     ELSE <<ZeroWord, ZeroWord, ZeroWord, ZeroWord, ZeroWord, ZeroWord, ZeroWord, ZeroWord>>)

\* the words re.findall(r"\b([0-9a-f]{8})\b", ...) keeps
HexWords == {ZeroWord, "5e0a11c3", "9d2b77f0", "0c4e61aa", "b8d3f210", "7a915c0e", "e2f4a6b8", "13579bdf"}

RECURSIVE FilterHex(_)
FilterHex(words) ==
    IF words = <<>> THEN <<>>
    ELSE IF Head(words) \in HexWords THEN <<Head(words)>> \o FilterHex(Tail(words))
    ELSE FilterHex(Tail(words))

\* burn_secure_boot: has_key from the stdout of dump_blocks
HasKey(words) ==
    LET hex_words == FilterHex(words)
        first8 == SubSeq(hex_words, 1, IF Len(hex_words) < 8 THEN Len(hex_words) ELSE 8)
    IN  IF \E i \in 1..Len(first8) : first8[i] # ZeroWord THEN PyTrue ELSE PyFalse

\* verify_device_accessible(port): result is the outcome of the summary command
VerifyDeviceAccessible(result, lines) ==
    IF result = "ok"
    THEN \/ \E i \in 1..Len(lines) : IsSubstr(S_Detecting, lines[i])
         \/ \E i \in 1..Len(lines) : IsSubstr(S_Chip, lines[i])
    ELSE FALSE

ChipMap == <<[name |-> <<"e","s","p","3","2","-","c","3">>, espefuse |-> "esp32c3"],
             [name |-> <<"e","s","p","3","2","c","3">>, espefuse |-> "esp32c3"],
             [name |-> <<"e","s","p","3","2","-","s","3">>, espefuse |-> "esp32s3"],
             [name |-> <<"e","s","p","3","2","s","3">>, espefuse |-> "esp32s3"],
             [name |-> <<"e","s","p","3","2">>, espefuse |-> "esp32"],
             [name |-> <<"e","s","p","3","2","-","c","6">>, espefuse |-> "esp32c6"],
             [name |-> <<"e","s","p","3","2","c","6">>, espefuse |-> "esp32c6"]>>

\* the first chip_map entry whose name occurs in the text, or None
ChipMapLookup(text) ==
    IF \E k \in 1..Len(ChipMap) : IsSubstr(ChipMap[k].name, text)
    THEN ChipMap[CHOOSE k \in 1..Len(ChipMap) :
                    /\ IsSubstr(ChipMap[k].name, text)
                    /\ \A j \in 1..(k - 1) : ~IsSubstr(ChipMap[j].name, text)].espefuse
    ELSE None

\* detect_chip_type: the loop over the lines of the summary.  The second
\* lookup (in the text after the last ":") finds nothing the first one did not.
RECURSIVE DetectChipLines(_)
DetectChipLines(lines) ==
    IF lines = <<>> THEN None
    ELSE LET line_lower == ToLower(Head(lines)) IN
         IF (IsSubstr(P_detecting, line_lower) \/ IsSubstr(P_chip_type, line_lower))
            /\ ChipMapLookup(line_lower) # None
         THEN ChipMapLookup(line_lower)
         ELSE DetectChipLines(Tail(lines))

\* detect_chip_type(port): any failure of the summary command gives None
DetectChipType(result, lines) ==
    IF result = "ok" THEN DetectChipLines(lines) ELSE None

(***************************************************************************)
(* The confirmation prompt.  What input() does is [kind, text]: a line of  *)
(* text, a KeyboardInterrupt or an EOFError.                               *)
(***************************************************************************)
Line(text) == [kind |-> "line", text |-> text]
PromptInputs == {Line("BURN"), Line("burn"), Line("BURN "), Line(""),
                 [kind |-> "KeyboardInterrupt", text |-> ""],
                 [kind |-> "EOFError", text |-> ""]}

\* Confirmed accepting the word in any letter case
Confirmed_IgnoreCase(response) == response \in {"BURN", "burn"}

\* the comparison `response != "BURN"`, negated
Confirmed(response) == response = "BURN"

\* burn_utils.prompt_burn_confirmation(): returns, or exits with a status
PromptBurnConfirmation(in) ==
    IF in.kind = "KeyboardInterrupt" THEN [status |-> "exit", code |-> 0]
    ELSE IF in.kind = "EOFError" THEN [status |-> "exit", code |-> 1]   \* uncaught
    ELSE IF ~Confirmed(in.text) THEN [status |-> "exit", code |-> 1]
    ELSE [status |-> "return", code |-> 0]

\* the prompt inside burn_efuse (burn_efuse.py, espwifiSecure.py)
InlineConfirmation(in) ==
    IF in.kind = "KeyboardInterrupt" THEN [status |-> "exit", code |-> 0]
    ELSE IF in.kind = "EOFError" THEN [status |-> "exit", code |-> 1]   \* uncaught
    ELSE IF ~Confirmed(in.text) THEN [status |-> "exit", code |-> 0]
    ELSE [status |-> "return", code |-> 0]


(***************************************************************************)
(* sign_binaries.py run as a script (the orchestrator's sign step).        *)
(* files.espsecure = "missing" is find_espsecure_script() returning None;  *)
(* files.now is the clock that stamps the files the tools write.           *)
(***************************************************************************)
RootSdkconfig == "sdkconfig"
BuildSdkconfig == ".pio/build/env/sdkconfig"

SdkconfigAt(fs, name) == IF name \in DOMAIN fs.sdkconfigs THEN fs.sdkconfigs[name] ELSE Missing

\* get_signing_key_path: the first CONFIG_SECURE_BOOT_SIGNING_KEY= line of a file
FirstKeyLine(lines) ==
    IF \E i \in 1..Len(lines) : lines[i].kind = "key"
    THEN KeyPathOf(lines[CHOOSE i \in 1..Len(lines) :
                            /\ lines[i].kind = "key"
                            /\ \A k \in 1..(i - 1) : lines[k].kind # "key"].value)
    ELSE None

\* get_signing_key_path(project_dir, pioenv) outside SCons; get_signing_key()
\* returns the same path whatever its validation prints
GetSigningKeyPath(fs) ==
    IF SdkconfigAt(fs, RootSdkconfig) # Missing /\ FirstKeyLine(SdkconfigAt(fs, RootSdkconfig)) # None
    THEN FirstKeyLine(SdkconfigAt(fs, RootSdkconfig))
    ELSE IF SdkconfigAt(fs, BuildSdkconfig) # Missing /\ FirstKeyLine(SdkconfigAt(fs, BuildSdkconfig)) # None
    THEN FirstKeyLine(SdkconfigAt(fs, BuildSdkconfig))
    ELSE DefaultKey

Binary(fs, name) == IF name = "bootloader" THEN fs.bootloader ELSE fs.firmware

WithBinary(fs, name, bin) ==
    IF name = "bootloader" THEN [fs EXCEPT !.bootloader = bin] ELSE [fs EXCEPT !.firmware = bin]

\* what the espsecure commands of one sign_binary call do when the script
\* and the key file are fine: sign is the outcome of sign_data, verify that
\* of the commands of verify_signature
SignOutcomes == {"ok", "CalledProcessError", "FileNotFoundError"}
Tool(sign, verify) == [sign |-> sign, verify |-> verify]
ToolOk == Tool("ok", "ok")

\* the temporary public-key file of verify_signature and the temporary digest
\* file of burn_secure_boot (tempfile.NamedTemporaryFile(delete=False))
TmpPubkey == "tmp_pubkey.pem"
TmpDigest == "tmp_digest.bin"

\* a clean-up done after the command and in `except CalledProcessError`
\* only: a timeout or another exception leaves the file
TempLeft_ExceptOnly(created, outcome) ==
    IF outcome \in {"ok", "nonzero", "CalledProcessError"} THEN created \ created ELSE created

\* `try: <command> ... finally: unlink`: the temporary files left, of those
\* created before the `try:`, once the statement is over with the given
\* outcome of the command; the `finally:` clause runs on every outcome
TempLeft(created, outcome) == created \ created

\* sign_binaries.verify_signature(binary_path, key_path): what it returns
\* (ok), whether it raised instead, the commands invoked and whether the
\* temporary public-key file is left behind.  The file is created after the
\* three early returns and unlinked in the `finally:` clause.
VerifySignature(fs, name, key, tool) ==
    IF ~Binary(fs, name).exists
    THEN [ok |-> FALSE, raised |-> FALSE, cmds |-> <<>>, tmp_left |-> FALSE]
    ELSE IF ~KeyFileAt(fs, key).exists
    THEN [ok |-> FALSE, raised |-> FALSE, cmds |-> <<>>, tmp_left |-> FALSE]
    ELSE IF fs.espsecure = "missing"
    THEN [ok |-> FALSE, raised |-> FALSE, cmds |-> <<>>, tmp_left |-> FALSE]
    ELSE IF tool = "FileNotFoundError"
    THEN [ok |-> FALSE, raised |-> TRUE, cmds |-> <<"extract_public_key">>,
          tmp_left |-> TempLeft({TmpPubkey}, "FileNotFoundError") # {}]
    ELSE IF ~(fs.espsecure = "ok" /\ ValidateKeyFile(KeyFileAt(fs, key)))
    THEN [ok |-> FALSE, raised |-> FALSE, cmds |-> <<"extract_public_key">>,
          tmp_left |-> TempLeft({TmpPubkey}, "CalledProcessError") # {}]
    ELSE [ok |-> tool = "ok" /\ Binary(fs, name).signed_with = key,
          raised |-> FALSE,
          cmds |-> <<"extract_public_key", "verify_signature " \o name>>,
          tmp_left |-> TempLeft({TmpPubkey}, tool) # {}]

\* sign_binary that returns True as soon as sign_data has exited 0
SignBinary_NoVerify(fs, name, key, tool) ==
    IF ~Binary(fs, name).exists
    THEN [ok |-> FALSE, raised |-> FALSE, fs |-> fs, cmds |-> <<>>, tmp_left |-> FALSE]
    ELSE IF ~KeyFileAt(fs, key).exists
    THEN [ok |-> FALSE, raised |-> FALSE, fs |-> fs, cmds |-> <<>>, tmp_left |-> FALSE]
    ELSE IF fs.espsecure = "missing"
    THEN [ok |-> FALSE, raised |-> FALSE, fs |-> fs, cmds |-> <<>>, tmp_left |-> FALSE]
    ELSE IF ~(fs.espsecure = "ok" /\ ValidateKeyFile(KeyFileAt(fs, key)) /\ tool.sign = "ok")
    THEN [ok |-> FALSE, raised |-> FALSE, fs |-> fs, cmds |-> <<"sign_data " \o name>>,
          tmp_left |-> FALSE]
    ELSE LET signed == WithBinary([fs EXCEPT !.now = @ + 1], name,
                          [Binary(fs, name) EXCEPT !.signed_with = key, !.mtime = fs.now])
         IN  [ok |-> TRUE, raised |-> FALSE, fs |-> signed,
              cmds |-> <<"sign_data " \o name>>, tmp_left |-> FALSE]

\* sign_binary(binary_path, key_path).  Gives what it returns (ok), whether
\* it raised instead, the files afterwards, the commands invoked and whether
\* a temporary file is left behind.  A CalledProcessError or
\* FileNotFoundError of sign_data, and a FileNotFoundError coming out of
\* verify_signature, are caught and make it return False.
SignBinary(fs, name, key, tool) ==
    IF ~Binary(fs, name).exists
    THEN [ok |-> FALSE, raised |-> FALSE, fs |-> fs, cmds |-> <<>>, tmp_left |-> FALSE]
    ELSE IF ~KeyFileAt(fs, key).exists
    THEN [ok |-> FALSE, raised |-> FALSE, fs |-> fs, cmds |-> <<>>, tmp_left |-> FALSE]
    ELSE IF fs.espsecure = "missing"
    THEN [ok |-> FALSE, raised |-> FALSE, fs |-> fs, cmds |-> <<>>, tmp_left |-> FALSE]
    ELSE IF ~(fs.espsecure = "ok" /\ ValidateKeyFile(KeyFileAt(fs, key)) /\ tool.sign = "ok")
    THEN [ok |-> FALSE, raised |-> FALSE, fs |-> fs, cmds |-> <<"sign_data " \o name>>,
          tmp_left |-> FALSE]
    ELSE LET signed == WithBinary([fs EXCEPT !.now = @ + 1], name,
                          [Binary(fs, name) EXCEPT !.signed_with = key, !.mtime = fs.now])
             verified == VerifySignature(signed, name, key, tool.verify)
         IN  [ok |-> ~verified.raised /\ verified.ok,
              raised |-> FALSE,
              fs |-> signed,
              cmds |-> <<"sign_data " \o name>> \o verified.cmds,
              tmp_left |-> verified.tmp_left]

\* _standalone_sign(): exit status, files afterwards, commands invoked and
\* what each sign_binary call returned ("ok", "failed", or "skipped") and
\* SIGNING_KEY, the key the module resolved when it was loaded
StandaloneSign(fs, boot_tool, fw_tool) ==
    LET key == GetSigningKeyPath(fs)
        boot == IF fs.bootloader.exists
                THEN SignBinary(fs, "bootloader", key, boot_tool)
                ELSE [ok |-> TRUE, fs |-> fs, cmds |-> <<>>, tmp_left |-> FALSE]
        fw == IF fs.firmware.exists
              THEN SignBinary(boot.fs, "firmware", key, fw_tool)
              ELSE [ok |-> TRUE, fs |-> boot.fs, cmds |-> <<>>, tmp_left |-> FALSE]
        Outcome(exists, r) == IF ~exists THEN "skipped" ELSE IF r.ok THEN "ok" ELSE "failed"
    IN  IF fs.espsecure = "missing"
        THEN [exit |-> 1, fs |-> fs, cmds |-> <<>>, bootloader |-> "skipped", firmware |-> "skipped",
              key |-> key, tmp_left |-> FALSE]
        ELSE IF ~fs.bootloader.exists /\ ~fs.firmware.exists
        THEN [exit |-> 1, fs |-> fs, cmds |-> <<>>, bootloader |-> "skipped", firmware |-> "skipped",
              key |-> key, tmp_left |-> FALSE]
        ELSE [exit |-> IF fs.firmware.exists /\ ~fw.ok THEN 1 ELSE 0,
              fs |-> fw.fs,
              cmds |-> boot.cmds \o fw.cmds,
              bootloader |-> Outcome(fs.bootloader.exists, boot),
              firmware |-> Outcome(fs.firmware.exists, fw),
              key |-> key,
              tmp_left |-> boot.tmp_left \/ fw.tmp_left]


(***************************************************************************)
(* Values of the variables a specification does not use.                   *)
(***************************************************************************)
NoArgs(script) == [script |-> script, port |-> None, key |-> None,
                   skip_build |-> FALSE, skip_upload |-> FALSE]
UnsignedBinary == [exists |-> TRUE, signed_with |-> None, mtime |-> 0]
NoFiles == [ini |-> Missing, sdkconfigs |-> [f \in {} |-> Missing], keys |-> [k \in {} |-> NoKeyFile],
            bootloader |-> UnsignedBinary, firmware |-> UnsignedBinary,
            espsecure |-> "ok", devs |-> {}, now |-> 1]
NoDevice == [absent |-> TRUE]
NoLocals == [absent |-> TRUE]

Range(s) == {s[i] : i \in 1..Len(s)}

(***************************************************************************)
(* Specification of show_device_info alone: any summary text of up to      *)
(* MaxLines lines, any outcome of the summary command.                     *)
(***************************************************************************)
InitParse ==
    /\ argv = NoArgs("show_device_info")
    /\ files = NoFiles
    /\ device = NoDevice
    /\ summary \in SeqsUpTo(LineVocab, MaxLines)
    /\ info = NoInfo
    /\ pc = "call"
    /\ locals = NoLocals
    /\ cmds = <<>>
    /\ globs = 0
    /\ exit = NotExited

\* show_device_info(port): run `espefuse summary`, parse its stdout
ShowDeviceInfoCall ==
    /\ argv.script = "show_device_info"
    /\ pc = "call"
    /\ \E result \in {"ok", "nonzero", "timeout"} :
         /\ info' = ShowDeviceInfo(result, summary)
         /\ exit' = IF info'.status = "return" THEN exit ELSE 1
    /\ cmds' = Append(cmds, "summary")
    /\ pc' = "return"
    /\ UNCHANGED <<argv, files, device, summary, locals, globs>>

NextParse == ShowDeviceInfoCall

SpecParse == InitParse /\ [][NextParse]_vars

\* the summary command succeeded and show_device_info returned a value
Returned == pc = "return" /\ info.status = "return"

(***************************************************************************)
(* C3: when the summary command succeeds but every SECURE_BOOT_EN line     *)
(* (resp. SPI_BOOT_CRYPT_CNT line) carries an unrecognized value token, or *)
(* there is no such line, show_device_info reports the field as            *)
(* indeterminate (None), not as disabled or enabled.                       *)
(***************************************************************************)
SbeUnrecognized == \A i \in 1..Len(summary) : summary[i] \in SbeLines => summary[i] = L_sbe_odd
CryptUnrecognized == \A i \in 1..Len(summary) : summary[i] \in CryptLines => summary[i] = L_crypt_7

C3_IndeterminateWhenUnrecognized ==
    Returned =>
        /\ SbeUnrecognized => info.secure_boot_enabled = None
        /\ CryptUnrecognized => info.flash_encryption = None

(***************************************************************************)
(* C4 as claimed: for any summary text containing a line                   *)
(* `SECURE_BOOT_EN ... = False` and a line `SPI_BOOT_CRYPT_CNT ... =       *)
(* Disable`, show_device_info returns (False, False), whatever the other   *)
(* lines and their order.                                                  *)
(***************************************************************************)
HasDisabledLines == L_sbe_false \in Range(summary) /\ L_crypt_disable \in Range(summary)

Parsed == pc = "return" /\ info.status \in {"return", "IndexError"}

LastOf(S) == IF \E i \in 1..Len(summary) : summary[i] \in S
             THEN summary[CHOOSE i \in 1..Len(summary) :
                            /\ summary[i] \in S
                            /\ \A k \in (i + 1)..Len(summary) : summary[k] \notin S]
             ELSE <<>>

LastLinesDisabled == /\ LastOf(SbeLines) = L_sbe_false
                     /\ LastOf(CryptLines) = L_crypt_disable
                     /\ L_mac_empty \notin Range(summary)

EnabledSbeLines == {L_sbe_true, L_sbe_1, L_sbe_0b1}
EnabledCryptLines == {L_crypt_enable, L_crypt_1, L_crypt_3}

C19_EnabledTokens ==
    Returned =>
        /\ LastOf(SbeLines) \in EnabledSbeLines => info.secure_boot_enabled = PyTrue
        /\ LastOf(CryptLines) \in EnabledCryptLines => info.flash_encryption = PyTrue

(***************************************************************************)
(* Specification of key resolution alone: main() of a burn script up to    *)
(* `key = key_path or signing_key_path()`, for any --key value, any        *)
(* platformio.ini of up to MaxIniLines lines and any SDK config file of up *)
(* to MaxSdkLines lines.                                                   *)
(***************************************************************************)
MaxIniLines == 3
MaxSdkLines == 2

BoardSdkconfig == "sdkconfig.board"
ArgKeyPath == "/keys/arg.pem"

IniVocab == {IniLine("target", ""), IniLine("section", ""),
             IniLine("sdkconfig", BoardSdkconfig), IniLine("sdkconfig", ""),
             IniLine("text", BoardSdkconfig)}

SdkVocab == {IniLine("comment", ""), IniLine("key", ""),
             IniLine("key", "keys/cfg.pem"), IniLine("key", "/keys/abs.pem")}

InitKey ==
    /\ \E key \in {None, "", ArgKeyPath} : argv = [NoArgs("resolve_key") EXCEPT !.key = key]
    /\ \E ini \in {Missing} \cup SeqsUpTo(IniVocab, MaxIniLines) :
       \E sdk \in {Missing} \cup SeqsUpTo(SdkVocab, MaxSdkLines) :
         files = [NoFiles EXCEPT !.ini = ini,
                                 !.sdkconfigs = [f \in {BoardSdkconfig} |-> sdk]]
    /\ device = NoDevice
    /\ summary = <<>>
    /\ info = NoInfo
    /\ pc = "call"
    /\ locals = NoLocals
    /\ cmds = <<>>
    /\ globs = 0
    /\ exit = NotExited

\* main(): key_arg, then burn_secure_boot's first statement
ResolveKeyCall ==
    /\ argv.script = "resolve_key"
    /\ pc = "call"
    /\ locals' = [sdkconfig_path |-> GetSdkconfigPath(files),
                  key |-> ResolveKey(KeyArg(argv.key), files)]
    /\ pc' = "return"
    /\ UNCHANGED <<argv, files, device, summary, info, cmds, globs, exit>>

NextKey == ResolveKeyCall

SpecKey == InitKey /\ [][NextKey]_vars

(***************************************************************************)
(* C7: the signing key path used is the explicit --key argument when one   *)
(* (a non-empty path) is given; otherwise the first non-empty              *)
(* CONFIG_SECURE_BOOT_SIGNING_KEY value of the environment's SDK config    *)
(* file when there is one; otherwise esp32_secure_boot.pem under the       *)
(* project directory.                                                      *)
(***************************************************************************)
KeyGiven == argv.key \notin {None, ""}

\* the SDK config file the run selected, and the key setting it holds
SelectedSdkconfig == files.sdkconfigs[locals.sdkconfig_path]
HasConfigValue == /\ locals.sdkconfig_path # None
                  /\ \E i \in 1..Len(SelectedSdkconfig) :
                        SelectedSdkconfig[i].kind = "key" /\ SelectedSdkconfig[i].value # ""
FirstConfigValue == SelectedSdkconfig[CHOOSE i \in 1..Len(SelectedSdkconfig) :
                        /\ SelectedSdkconfig[i].kind = "key" /\ SelectedSdkconfig[i].value # ""
                        /\ \A k \in 1..(i - 1) :
                              ~(SelectedSdkconfig[k].kind = "key" /\ SelectedSdkconfig[k].value # "")].value
ConfigKeyPath == IF FirstConfigValue = "/keys/abs.pem" THEN "/keys/abs.pem"
                 ELSE "PROJECT_DIR/keys/cfg.pem"

C7_KeyPrecedence ==
    pc = "return" /\ argv.script = "resolve_key" =>
        locals.key = IF KeyGiven THEN argv.key
                     ELSE IF HasConfigValue THEN ConfigKeyPath
                     ELSE "PROJECT_DIR/esp32_secure_boot.pem"

\* reached: an explicit key wins over a config value that is present
C7_Witness ==
    /\ pc = "return" /\ argv.script = "resolve_key"
    /\ KeyGiven /\ HasConfigValue
    /\ locals.key = ArgKeyPath

\* reached: without an explicit key the config value wins over the default
C7_WitnessConfig ==
    /\ pc = "return" /\ argv.script = "resolve_key"
    /\ ~KeyGiven /\ HasConfigValue
    /\ locals.key = "PROJECT_DIR/keys/cfg.pem"


(***************************************************************************)
(* Specification of the pre-burn gate alone: validate_pre_burn_checks on   *)
(* any state of the key file, of the two binaries and of the espsecure     *)
(* tool.                                                                   *)
(***************************************************************************)
GateKey == "PROJECT_DIR/esp32_secure_boot.pem"
OtherKey == "PROJECT_DIR/other.pem"

KeyFileSamples ==
    {NoKeyFile,
     [exists |-> TRUE, readable |-> FALSE, decodable |-> FALSE, markers |-> {}],
     [exists |-> TRUE, readable |-> FALSE, decodable |-> TRUE, markers |-> {"BEGIN", "END"}],
     [exists |-> TRUE, readable |-> TRUE, decodable |-> FALSE, markers |-> {}],
     [exists |-> TRUE, readable |-> TRUE, decodable |-> TRUE, markers |-> {}],
     [exists |-> TRUE, readable |-> TRUE, decodable |-> TRUE, markers |-> {"BEGIN"}],
     [exists |-> TRUE, readable |-> TRUE, decodable |-> TRUE, markers |-> {"END"}],
     PemKeyFile}

\* modification times on both sides of the tolerance
MtimeSamples == {0, TimestampTolerance, TimestampTolerance + 1}

BinarySamples ==
    {[exists |-> FALSE, signed_with |-> None, mtime |-> 0]}
    \cup [exists : {TRUE}, signed_with : {None, GateKey, OtherKey}, mtime : MtimeSamples]

InitGate ==
    /\ argv = [NoArgs("validate_pre_burn_checks") EXCEPT !.key = GateKey]
    /\ \E kf \in KeyFileSamples, boot \in BinarySamples, fw \in BinarySamples,
          tool \in {"ok", "error", "no_python"} :
         files = [NoFiles EXCEPT !.keys = [k \in {GateKey} |-> kf],
                                 !.bootloader = boot, !.firmware = fw,
                                 !.espsecure = tool]
    /\ device = NoDevice
    /\ summary = <<>>
    /\ info = NoInfo
    /\ pc = "call"
    /\ locals = NoLocals
    /\ cmds = <<>>
    /\ globs = 0
    /\ exit = NotExited

\* validate_pre_burn_checks(key_path)
ValidatePreBurnChecksCall ==
    /\ argv.script = "validate_pre_burn_checks"
    /\ pc = "call"
    /\ locals' = ValidatePreBurnChecks(files, argv.key)
    /\ cmds' = cmds \o locals'.cmds
    /\ pc' = "return"
    /\ UNCHANGED <<argv, files, device, summary, info, globs, exit>>

NextGate == ValidatePreBurnChecksCall

SpecGate == InitGate /\ [][NextGate]_vars

GateReturned == pc = "return" /\ argv.script = "validate_pre_burn_checks"

\* what the environment makes of the two signature verifications
SignatureGood(bin) == /\ files.espsecure = "ok"
                      /\ KeyFileAt(files, argv.key) = PemKeyFile
                      /\ bin.exists /\ bin.signed_with = argv.key
BinariesPresent == files.bootloader.exists /\ files.firmware.exists
SignaturesGood == SignatureGood(files.bootloader) /\ SignatureGood(files.firmware)
KeyFileGood == KeyFileAt(files, argv.key) = PemKeyFile
MtimeDrift == Abs(files.bootloader.mtime - files.firmware.mtime)

(***************************************************************************)
(* C5: if signature verification fails for the bootloader or the firmware  *)
(* (or a binary is missing) validate_pre_burn_checks returns False         *)
(* whatever the key-file and timestamp checks say, and when both binaries  *)
(* exist both are verified, also after a failed bootloader verification.   *)
(***************************************************************************)
C5_SignatureFailureFailsGate ==
    GateReturned =>
        /\ ~SignaturesGood => ~locals.passed
        /\ BinariesPresent =>
              /\ "verify-signature bootloader" \in Range(cmds)
              /\ "verify-signature firmware" \in Range(cmds)

\* reached: the bootloader verification fails, the firmware one is still run,
\* the key file and the timestamps are fine, and the gate fails
C5_Witness ==
    /\ GateReturned
    /\ KeyFileGood /\ BinariesPresent /\ MtimeDrift = 0
    /\ ~SignatureGood(files.bootloader) /\ SignatureGood(files.firmware)
    /\ cmds = <<"verify-signature bootloader", "verify-signature firmware">>
    /\ ~locals.passed

GateKeyFile == KeyFileAt(files, argv.key)
KeyFileHasText == GateKeyFile.exists /\ GateKeyFile.readable /\ GateKeyFile.decodable
HasBothMarkers == {"BEGIN", "END"} \subseteq GateKeyFile.markers

C16_KeyValidation ==
    GateReturned =>
        /\ locals.key_ok \in BOOLEAN
        /\ locals.key_ok <=> (KeyFileHasText /\ HasBothMarkers)
        /\ exit = NotExited

\* reached: a readable key file with one marker only was rejected
C16_Witness ==
    /\ GateReturned
    /\ KeyFileHasText /\ GateKeyFile.markers = {"BEGIN"}
    /\ locals.key_ok = FALSE

\* reached: a key file whose read fails was rejected by a call that returned
C16_WitnessReadError ==
    /\ GateReturned
    /\ GateKeyFile.exists /\ GateKeyFile.readable /\ ~GateKeyFile.decodable
    /\ locals.key_ok = FALSE

(***************************************************************************)
(* Specification of port resolution alone: burn_utils.resolve_port and the *)
(* inline detection of burn_efuse, for any --port value and any set of     *)
(* existing device paths.                                                  *)
(***************************************************************************)
InitPort ==
    /\ \E script \in {"resolve_port", "resolve_port_inline"}, port \in {None, ""} \cup DevPaths :
         argv = [NoArgs(script) EXCEPT !.port = port]
    /\ \E devs \in SUBSET DevPaths : files = [NoFiles EXCEPT !.devs = devs]
    /\ device = NoDevice
    /\ summary = <<>>
    /\ info = NoInfo
    /\ pc = "call"
    /\ locals = NoLocals
    /\ cmds = <<>>
    /\ globs = 0
    /\ exit = NotExited

\* resolve_port(port)
ResolvePortCall ==
    /\ argv.script = "resolve_port"
    /\ pc = "call"
    /\ locals' = ResolvePort(argv.port, files.devs)
    /\ globs' = globs + locals'.globs
    /\ pc' = "return"
    /\ exit' = IF locals'.status = "SystemExit" THEN 1 ELSE exit
    /\ UNCHANGED <<argv, files, device, summary, info, cmds>>

\* burn_efuse(port), up to the call of show_device_info
ResolvePortInlineCall ==
    /\ argv.script = "resolve_port_inline"
    /\ pc = "call"
    /\ locals' = ResolvePortInline(argv.port, files.devs)
    /\ globs' = globs + locals'.globs
    /\ pc' = "return"
    /\ exit' = IF locals'.status = "SystemExit" THEN 1 ELSE exit
    /\ UNCHANGED <<argv, files, device, summary, info, cmds>>

NextPort == ResolvePortCall \/ ResolvePortInlineCall

SpecPort == InitPort /\ [][NextPort]_vars

PortResolved == pc = "return" /\ argv.script \in {"resolve_port", "resolve_port_inline"}

\* an explicit port: a non-empty --port value
PortGiven == argv.port \notin {None, ""}

(***************************************************************************)
(* C8 as claimed: for every explicit port string given, port resolution    *)
(* yields exactly that string and performs no glob scan.                   *)
(***************************************************************************)
C8_ExplicitPortVerbatim ==
    (PortResolved /\ PortGiven) =>
        /\ locals.status = "return"
        /\ locals.port = argv.port
        /\ globs = 0

(***************************************************************************)
(* C8 amended: for every explicit (non-empty) port string given, port      *)
(* resolution performs no glob scan and yields exactly that string, except *)
(* that burn_utils.resolve_port fails with an error, yielding no port,     *)
(* when the given path does not exist.                                     *)
(***************************************************************************)
C8_ExplicitPortVerbatimOrError ==
    (PortResolved /\ PortGiven) =>
        /\ globs = 0
        /\ IF argv.script = "resolve_port" /\ argv.port \notin files.devs
           THEN locals.status = "SystemExit" /\ exit = 1
           ELSE locals.status = "return" /\ locals.port = argv.port

\* reached: an explicit port is returned although a glob pattern would match
\* another device
C8_Witness ==
    /\ PortResolved /\ PortGiven
    /\ argv.script = "resolve_port"
    /\ argv.port = "/dev/ttyACM0"
    /\ "/dev/ttyUSB0" \in files.devs
    /\ locals.status = "return" /\ locals.port = "/dev/ttyACM0"
    /\ globs = 0

(***************************************************************************)
(* The scripts as flows.  pc is the position in the flow; locals are the   *)
(* local variables of the running function; every external command is      *)
(* appended to cmds when it is invoked; exit is NotExited or the status     *)
(* the process ended with.                                                 *)
(***************************************************************************)
Scripts == {"burn_secure_boot", "burn_flash_encryption", "burn_efuse", "espwifiSecure",
            "enable_secureboot"}

NoResponse == [kind |-> "none", text |-> ""]
FlowLocals == [stage |-> "main", key |-> None, port |-> None, chip |-> None, has_key |-> None,
               response |-> NoResponse,
               sign |-> [bootloader |-> "none", firmware |-> "none", key |-> None,
                         tmp_left |-> FALSE],
               tmp |-> {},
               steps |-> <<>>, failed |-> None,
               burn_failed |-> None, complete |-> FALSE, checks |-> <<>>,
               digest |-> None]

Running == exit = NotExited

\* the function whose body is executing: enable_secureboot.main ("workflow"),
\* burn_secure_boot (as a script, or called by burn_secure_boot_efuse), ...
Flow ==
    IF argv.script = "enable_secureboot"
    THEN IF locals.stage = "burn" THEN "burn_secure_boot" ELSE "workflow"
    ELSE argv.script

\* what a command talking to the device on port can do; the calls without a
\* timeout= argument cannot raise TimeoutExpired
DeviceOutcomes(port, has_timeout) ==
    IF port \in files.devs
    THEN IF has_timeout THEN {"ok", "nonzero", "timeout"} ELSE {"ok", "nonzero"}
    ELSE {"nonzero"}

BurnCommands == {"burn-key", "burn_efuse SECURE_BOOT_EN", "burn_efuse FLASH_CRYPT_CNT"}
BurnInvoked == \E i \in 1..Len(cmds) : cmds[i] \in BurnCommands

\* enable_secureboot.check_dependencies()
CheckDependencies ==
    /\ Running /\ Flow = "workflow" /\ pc = "check_dependencies"
    /\ \E result \in {"ok", "nonzero"} :
         /\ exit' = IF result = "ok" THEN exit ELSE 1
         /\ pc' = IF result = "ok" THEN "resolve_key" ELSE pc
    /\ cmds' = Append(cmds, "pio --version")
    /\ UNCHANGED <<argv, files, device, summary, info, locals, globs>>

\* key = key_path or signing_key_path(); if not validate_key_file(key): exit 1
ResolveKeyStep ==
    /\ Running /\ pc = "resolve_key"
    /\ LET key_path == IF locals.stage = "burn" THEN locals.key ELSE KeyArg(argv.key)
           key == ResolveKey(key_path, files)
           valid == ValidateKeyFile(KeyFileAt(files, key))
       IN  /\ locals' = [locals EXCEPT !.key = key,
                                       !.checks = IF valid THEN Append(@, "key") ELSE @]
           /\ exit' = IF valid THEN exit ELSE 1
           /\ pc' = IF valid THEN "resolve_port" ELSE pc
    /\ UNCHANGED <<argv, files, device, summary, info, cmds, globs>>

\* port = resolve_port(port)
ResolvePortStep ==
    /\ Running /\ pc = "resolve_port"
    /\ LET r == ResolvePort(IF locals.stage = "burn" THEN locals.port ELSE argv.port, files.devs)
       IN  /\ globs' = globs + r.globs
           /\ locals' = [locals EXCEPT !.port = r.port]
           /\ exit' = IF r.status = "return" THEN exit ELSE 1
           /\ pc' = IF r.status = "return" THEN "verify_device" ELSE pc
    /\ UNCHANGED <<argv, files, device, summary, info, cmds>>

\* the `if port is None:` block at the head of burn_efuse
DetectPortStep ==
    /\ Running /\ pc = "detect_port"
    /\ LET r == ResolvePortInline(argv.port, files.devs)
       IN  /\ globs' = globs + r.globs
           /\ locals' = [locals EXCEPT !.port = r.port]
           /\ exit' = IF r.status = "return" THEN exit ELSE 1
           /\ pc' = IF r.status = "return" THEN "device_state" ELSE pc
    /\ UNCHANGED <<argv, files, device, summary, info, cmds>>

\* if not verify_device_accessible(port): raise SystemExit(...)
VerifyDeviceStep ==
    /\ Running /\ pc = "verify_device"
    /\ \E result \in DeviceOutcomes(locals.port, TRUE) :
         LET accessible == VerifyDeviceAccessible(result, SummaryText(device))
         IN  /\ summary' = IF result = "ok" THEN SummaryText(device) ELSE <<>>
             /\ exit' = IF accessible THEN exit ELSE 1
             /\ locals' = [locals EXCEPT !.checks = IF accessible THEN Append(@, "device") ELSE @]
             /\ pc' = IF ~accessible THEN pc
                      ELSE IF Flow = "burn_flash_encryption" THEN "pre_burn_checks"
                      ELSE "detect_chip"
    /\ cmds' = Append(cmds, "summary")
    /\ UNCHANGED <<argv, files, device, info, globs>>

\* chip_type = detect_chip_type(port); if not chip_type: raise SystemExit(...)
DetectChipStep ==
    /\ Running /\ pc = "detect_chip"
    /\ \E result \in DeviceOutcomes(locals.port, TRUE) :
         LET chip_type == DetectChipType(result, SummaryText(device))
         IN  /\ summary' = IF result = "ok" THEN SummaryText(device) ELSE <<>>
             /\ locals' = [locals EXCEPT !.chip = chip_type]
             /\ exit' = IF chip_type # None THEN exit ELSE 1
             /\ pc' = IF chip_type = None THEN pc
                      ELSE IF Flow = "workflow" THEN "build"
                      ELSE "pre_burn_checks"
    /\ cmds' = Append(cmds, "summary")
    /\ UNCHANGED <<argv, files, device, info, globs>>

\* if not validate_pre_burn_checks(key): raise SystemExit(...)
PreBurnChecksStep ==
    /\ Running /\ pc = "pre_burn_checks"
    /\ LET r == ValidatePreBurnChecks(files, locals.key)
       IN  /\ cmds' = cmds \o r.cmds
           /\ locals' = [locals EXCEPT !.checks = IF r.passed THEN Append(@, "pre_burn") ELSE @]
           /\ exit' = IF r.passed THEN exit ELSE 1
           /\ pc' = IF r.passed THEN "device_state" ELSE pc
    /\ UNCHANGED <<argv, files, device, summary, info, globs>>

\* burn_secure_boot / burn_flash_encryption: show_device_info(port) and the
\* test of flash_encryption that follows it
DeviceStateStep ==
    /\ Running /\ pc = "device_state"
    /\ Flow \in {"burn_secure_boot", "burn_flash_encryption"}
    /\ \E result \in DeviceOutcomes(locals.port, TRUE) :
         LET state == ShowDeviceInfo(result, SummaryText(device))
             code == IF state.status # "return" THEN 1
                     ELSE IF Flow = "burn_flash_encryption" /\ state.flash_encryption = PyTrue THEN 0
                     ELSE exit
         IN  /\ summary' = IF result = "ok" THEN SummaryText(device) ELSE <<>>
             /\ info' = state
             /\ exit' = code
             /\ locals' = [locals EXCEPT !.checks = IF state.status = "return"
                                                    THEN Append(@, "state") ELSE @]
             /\ pc' = IF code # NotExited THEN pc
                      ELSE IF Flow = "burn_secure_boot" THEN "key_block"
                      ELSE "confirm"
    /\ cmds' = Append(cmds, "summary")
    /\ UNCHANGED <<argv, files, device, globs>>

\* burn_efuse.py: show_device_info(port), then the abort when it is False
InlineDeviceStateStep ==
    /\ Running /\ pc = "device_state" /\ Flow = "burn_efuse"
    /\ \E result \in DeviceOutcomes(locals.port, FALSE) :
         LET state == ShowDeviceInfo(result, SummaryText(device))
             code == IF state.status # "return" THEN 1
                     ELSE IF state.secure_boot_enabled = PyFalse THEN 1
                     ELSE exit
         IN  /\ summary' = IF result = "ok" THEN SummaryText(device) ELSE <<>>
             /\ info' = state
             /\ exit' = code
             /\ pc' = IF code # NotExited THEN pc ELSE "confirm"
    /\ cmds' = Append(cmds, "summary")
    /\ UNCHANGED <<argv, files, device, locals, globs>>

\* espwifiSecure.py: show_device_info(port) returns nothing and, when the
\* summary command fails, prints "Continuing anyway"
EspwifiSecureDeviceStateStep ==
    /\ Running /\ pc = "device_state" /\ Flow = "espwifiSecure"
    /\ \E result \in DeviceOutcomes(locals.port, FALSE) :
         LET state == ShowDeviceInfo(result, SummaryText(device))
         IN  /\ summary' = IF result = "ok" THEN SummaryText(device) ELSE <<>>
             /\ info' = IF state.status = "SystemExit" THEN NoInfo ELSE state
             /\ exit' = IF state.status \in {"return", "SystemExit"} THEN exit ELSE 1
             /\ pc' = IF state.status \in {"return", "SystemExit"} THEN "confirm" ELSE pc
    /\ cmds' = Append(cmds, "summary")
    /\ UNCHANGED <<argv, files, device, locals, globs>>

\* burn_secure_boot: dump_blocks BLOCK_KEY0, has_key, and the exit when
\* secure boot is enabled and the key block is written
KeyBlockStep ==
    /\ Running /\ pc = "key_block"
    /\ \E result \in DeviceOutcomes(locals.port, TRUE) :
         LET has_key == IF result = "ok" THEN HasKey(DumpText(device))
                        ELSE IF result = "nonzero" THEN HasKey(<<>>)
                        ELSE None
             done == info.secure_boot_enabled = PyTrue /\ has_key = PyTrue
         IN  /\ locals' = [locals EXCEPT !.has_key = has_key]
             /\ exit' = IF done THEN 0 ELSE exit
             /\ pc' = IF done THEN pc ELSE "confirm"
    /\ cmds' = Append(cmds, "dump_blocks")
    /\ UNCHANGED <<argv, files, device, summary, info, globs>>

\* prompt_burn_confirmation() in burn_secure_boot and burn_flash_encryption
ConfirmStep ==
    /\ Running /\ pc = "confirm"
    /\ Flow \in {"burn_secure_boot", "burn_flash_encryption"}
    /\ \E in \in PromptInputs :
         LET r == PromptBurnConfirmation(in)
         IN  /\ locals' = [locals EXCEPT !.response = in,
                                         !.checks = IF r.status = "return"
                                                    THEN Append(@, "confirm") ELSE @]
             /\ exit' = IF r.status = "exit" THEN r.code ELSE exit
             /\ pc' = IF r.status = "exit" THEN pc
                      ELSE IF Flow = "burn_secure_boot" THEN "extract_digest"
                      ELSE "burn_flash_crypt"
    /\ UNCHANGED <<argv, files, device, summary, info, cmds, globs>>

\* the input() block of burn_efuse (burn_efuse.py, espwifiSecure.py)
InlineConfirmStep ==
    /\ Running /\ pc = "confirm"
    /\ Flow \in {"burn_efuse", "espwifiSecure"}
    /\ \E in \in PromptInputs :
         LET r == InlineConfirmation(in)
         IN  /\ locals' = [locals EXCEPT !.response = in]
             /\ exit' = IF r.status = "exit" THEN r.code ELSE exit
             /\ pc' = IF r.status = "exit" THEN pc ELSE "burn_secure_boot_en"
    /\ UNCHANGED <<argv, files, device, summary, info, cmds, globs>>

\* burn_secure_boot step 1: openssl pkey -pubout, sha256 of the result
ExtractDigestStep ==
    /\ Running /\ pc = "extract_digest"
    /\ \E result \in {"ok", "nonzero", "FileNotFoundError"} :
         /\ locals' = [locals EXCEPT !.digest = IF result = "ok" THEN "extracted" ELSE "failed"]
         /\ exit' = IF result = "ok" THEN exit ELSE 1
         /\ pc' = IF result = "ok" THEN "burn_key" ELSE pc
    /\ cmds' = Append(cmds, "openssl pkey")
    /\ UNCHANGED <<argv, files, device, summary, info, globs>>

\* the burn-key step going on to step 3 after a timeout
BurnKeyStep_TimeoutGoesOn ==
    /\ Running /\ pc = "burn_key"
    /\ \E result \in DeviceOutcomes(locals.port, TRUE), written \in BOOLEAN :
         /\ result = "ok" => device.key_block = "empty" /\ written
         /\ result = "nonzero" => ~written
         /\ device' = IF written THEN [device EXCEPT !.key_block = "written"] ELSE device
         /\ locals' = [locals EXCEPT !.burn_failed = IF result = "ok" THEN @ ELSE "burn-key",
                                     !.tmp = TempLeft({TmpDigest}, result)]
         /\ exit' = IF result \in {"ok", "timeout"} THEN exit ELSE 1
         /\ pc' = IF result \in {"ok", "timeout"} THEN "burn_secure_boot_en" ELSE pc
    /\ cmds' = Append(cmds, "burn-key")
    /\ UNCHANGED <<argv, files, summary, info, globs>>

\* burn_secure_boot step 2: espefuse burn-key BLOCK_KEY0 (timeout=30,
\* check=True).  The tool refuses a block that is already written; after a
\* timeout the block may or may not have been written.
BurnKeyStep ==
    /\ Running /\ pc = "burn_key"
    /\ \E result \in DeviceOutcomes(locals.port, TRUE), written \in BOOLEAN :
         /\ result = "ok" => device.key_block = "empty" /\ written
         /\ result = "nonzero" => ~written
         /\ device' = IF written THEN [device EXCEPT !.key_block = "written"] ELSE device
         /\ locals' = [locals EXCEPT !.burn_failed = IF result = "ok" THEN @ ELSE "burn-key",
                                     !.tmp = TempLeft({TmpDigest}, result)]
         /\ exit' = IF result = "ok" THEN exit ELSE 1
         /\ pc' = IF result = "ok" THEN "burn_secure_boot_en" ELSE pc
    /\ cmds' = Append(cmds, "burn-key")
    /\ UNCHANGED <<argv, files, summary, info, globs>>

\* `"already" in str(e).lower()`: check_call captures no stderr, so the text
\* is "Command '[python, -m, espefuse, --port, <port>, --chip, <chip>,
\* burn_efuse, SECURE_BOOT_EN]' returned non-zero exit status N", in which
\* only the port can hold the word
AlreadyNamed == {"/dev/already"}
MentionsAlready(port) == port \in AlreadyNamed

\* espefuse burn_efuse SECURE_BOOT_EN: step 3 of burn_secure_boot
\* (timeout=30; a CalledProcessError whose text mentions "already" is
\* printed as "already enabled" and the function goes on) and the burn of
\* burn_efuse (no timeout, every CalledProcessError is a SystemExit)
BurnSecureBootEnStep ==
    /\ Running /\ pc = "burn_secure_boot_en"
    /\ \E result \in DeviceOutcomes(locals.port, Flow = "burn_secure_boot"), burned \in BOOLEAN :
         LET tolerated == /\ Flow = "burn_secure_boot"
                          /\ result = "nonzero"
                          /\ MentionsAlready(locals.port)
             success == result = "ok" \/ tolerated
         IN  /\ result = "ok" => burned
             /\ result = "nonzero" => ~burned
             /\ device' = IF burned THEN [device EXCEPT !.secure_boot_en = TRUE] ELSE device
             /\ locals' = [locals EXCEPT
                              !.burn_failed = IF result = "ok" THEN @ ELSE "burn_efuse SECURE_BOOT_EN",
                              !.complete = success]
             /\ exit' = IF success THEN 0 ELSE 1
    /\ cmds' = Append(cmds, "burn_efuse SECURE_BOOT_EN")
    /\ UNCHANGED <<argv, files, summary, info, pc, globs>>

\* burn_flash_encryption: espefuse burn_efuse FLASH_CRYPT_CNT (timeout=30)
BurnFlashCryptStep ==
    /\ Running /\ pc = "burn_flash_crypt"
    /\ \E result \in DeviceOutcomes(locals.port, TRUE), burned \in BOOLEAN :
         /\ result = "ok" => burned
         /\ result = "nonzero" => ~burned
         /\ device' = IF burned THEN [device EXCEPT !.flash_crypt = TRUE] ELSE device
         /\ locals' = [locals EXCEPT
                          !.burn_failed = IF result = "ok" THEN @ ELSE "burn_efuse FLASH_CRYPT_CNT",
                          !.complete = result = "ok"]
         /\ exit' = IF result = "ok" THEN 0 ELSE 1
    /\ cmds' = Append(cmds, "burn_efuse FLASH_CRYPT_CNT")
    /\ UNCHANGED <<argv, files, summary, info, pc, globs>>

(***************************************************************************)
(* enable_secureboot.main, steps 6 to 11.  locals.steps lists the steps    *)
(* that ran, locals.failed names the step in which something failed,       *)
(* locals.sign holds what each sign_binary call of the sign step returned. *)
(***************************************************************************)
FreshBinary(fs) == [exists |-> TRUE, signed_with |-> None, mtime |-> fs.now]

\* Skipped that honours --skip-build only
Skipped_BuildOnly(step) == step = "build" /\ argv.skip_build

\* `if not args.skip_build:` and `if not args.skip_upload:`
Skipped(step) ==
    \/ step = "build" /\ argv.skip_build
    \/ step = "upload" /\ argv.skip_upload

\* step 6: build_firmware(env_name) unless --skip-build.  A successful
\* `pio run` leaves both binaries in the build directory, rewritten or, in
\* an up-to-date build directory, untouched.
BuildStep ==
    /\ Running /\ Flow = "workflow" /\ pc = "build"
    /\ IF Skipped("build")
       THEN /\ pc' = "sign"
            /\ UNCHANGED <<files, cmds, locals, exit>>
       ELSE \E result \in {"ok", "nonzero", "timeout"}, rebuilt \in BOOLEAN :
              /\ result # "ok" => ~rebuilt
              /\ ~rebuilt /\ result = "ok" => MissingBinaries(files) = <<>>
              /\ files' = IF rebuilt
                          THEN [files EXCEPT !.bootloader = FreshBinary(files),
                                             !.firmware = FreshBinary(files),
                                             !.now = @ + 1]
                          ELSE files
              /\ cmds' = Append(cmds, "pio run")
              /\ locals' = [locals EXCEPT !.steps = Append(@, "build"),
                                          !.failed = IF result = "ok" THEN @ ELSE "build"]
              /\ exit' = IF result = "ok" THEN exit ELSE 1
              /\ pc' = IF result = "ok" THEN "sign" ELSE pc
    /\ UNCHANGED <<argv, device, summary, info, globs>>

\* what the espsecure commands do in a workflow run: both succeed, sign_data
\* fails, or the verification after a successful sign_data fails
SignTools == {ToolOk, Tool("CalledProcessError", "ok"), Tool("ok", "CalledProcessError")}

\* step 7: sign_binaries(key_path, env_name) runs sign_binaries.py
\* (timeout=30); key_path is not passed on
SignStep ==
    /\ Running /\ Flow = "workflow" /\ pc = "sign"
    /\ \E boot_tool \in SignTools, fw_tool \in SignTools :
         LET r == StandaloneSign(files, boot_tool, fw_tool)
             results == [bootloader |-> r.bootloader, firmware |-> r.firmware, key |-> r.key,
                         tmp_left |-> r.tmp_left]
             failed == r.exit # 0 \/ r.bootloader = "failed" \/ r.firmware = "failed"
         IN  /\ files' = r.fs
             /\ cmds' = Append(cmds, "sign_binaries.py") \o r.cmds
             /\ locals' = [locals EXCEPT !.steps = Append(@, "sign"), !.sign = results,
                                         !.failed = IF failed THEN "sign" ELSE @]
             /\ exit' = IF r.exit = 0 THEN exit ELSE 1
             /\ pc' = IF r.exit = 0 THEN "validate" ELSE pc
    /\ UNCHANGED <<argv, device, summary, info, globs>>

\* steps 8 and 10: validate_binaries(key_path)
ValidateStep ==
    /\ Running /\ Flow = "workflow" /\ pc \in {"validate", "final_validate"}
    /\ LET exist == MissingBinaries(files) = <<>>
           signed == VerifySignedBinaries(files, locals.key)
           passed == exist /\ signed.ok /\ VerifyBinaryTimestamps(files)
       IN  /\ cmds' = IF exist THEN cmds \o signed.cmds ELSE cmds
           /\ locals' = [locals EXCEPT !.steps = Append(@, pc),
                                       !.failed = IF passed THEN @ ELSE pc]
           /\ exit' = IF passed THEN exit ELSE 1
           /\ pc' = IF ~passed THEN pc
                    ELSE IF pc = "validate" THEN "upload" ELSE "final_info"
    /\ UNCHANGED <<argv, files, device, summary, info, globs>>

\* step 9: upload_binaries(port, env_name) unless --skip-upload
UploadStep ==
    /\ Running /\ Flow = "workflow" /\ pc = "upload"
    /\ IF Skipped("upload")
       THEN /\ pc' = "final_validate"
            /\ UNCHANGED <<cmds, locals, exit>>
       ELSE \E result \in {"ok", "nonzero", "timeout"} :
              /\ cmds' = Append(cmds, "pio run -t upload")
              /\ locals' = [locals EXCEPT !.steps = Append(@, "upload"),
                                          !.failed = IF result = "ok" THEN @ ELSE "upload"]
              /\ exit' = IF result = "ok" THEN exit ELSE 1
              /\ pc' = IF result = "ok" THEN "final_validate" ELSE pc
    /\ UNCHANGED <<argv, files, device, summary, info, globs>>

\* step 10, second half: show_device_info(port), result not used
FinalInfoStep ==
    /\ Running /\ Flow = "workflow" /\ pc = "final_info"
    /\ \E result \in DeviceOutcomes(locals.port, TRUE) :
         LET state == ShowDeviceInfo(result, SummaryText(device))
         IN  /\ summary' = IF result = "ok" THEN SummaryText(device) ELSE <<>>
             /\ locals' = [locals EXCEPT !.failed = IF state.status = "return" THEN @
                                                    ELSE "final_validate"]
             /\ exit' = IF state.status = "return" THEN exit ELSE 1
             /\ pc' = IF state.status = "return" THEN "efuse_info" ELSE pc
    /\ cmds' = Append(cmds, "summary")
    /\ UNCHANGED <<argv, files, device, info, globs>>

\* step 11, burn_secure_boot_efuse: show_device_info(port) and the return
\* when secure boot is already enabled (main then prints COMPLETE)
EfuseInfoStep ==
    /\ Running /\ Flow = "workflow" /\ pc = "efuse_info"
    /\ \E result \in DeviceOutcomes(locals.port, TRUE) :
         LET state == ShowDeviceInfo(result, SummaryText(device))
             code == IF state.status # "return" THEN 1
                     ELSE IF state.secure_boot_enabled = PyTrue THEN 0
                     ELSE exit
         IN  /\ summary' = IF result = "ok" THEN SummaryText(device) ELSE <<>>
             /\ info' = state
             /\ locals' = [locals EXCEPT !.steps = Append(@, "burn"),
                                         !.failed = IF code = 1 THEN "burn" ELSE @,
                                         !.complete = code = 0]
             /\ exit' = code
             /\ pc' = IF code = NotExited THEN "efuse_confirm" ELSE pc
    /\ cmds' = Append(cmds, "summary")
    /\ UNCHANGED <<argv, files, device, globs>>

\* burn_secure_boot_efuse: prompt_burn_confirmation(), then
\* burn_secure_boot(port=port, key_path=key_path)
EfuseConfirmStep ==
    /\ Running /\ Flow = "workflow" /\ pc = "efuse_confirm"
    /\ \E in \in PromptInputs :
         LET r == PromptBurnConfirmation(in)
         IN  /\ locals' = [locals EXCEPT !.response = in,
                                         !.stage = IF r.status = "exit" THEN @ ELSE "burn"]
             /\ exit' = IF r.status = "exit" THEN r.code ELSE exit
             /\ pc' = IF r.status = "exit" THEN pc ELSE "resolve_key"
    /\ UNCHANGED <<argv, files, device, summary, info, cmds, globs>>

(***************************************************************************)
(* One invocation of one script: its command line, the files of the        *)
(* project, the device paths that exist and the eFuses of the device.      *)
(***************************************************************************)
FlowPorts == {None, "/dev/ttyUSB0", "/dev/already"}
FlowDevs == {{}, {"/dev/ttyUSB0"}, {"/dev/ttyACM0"}, {"/dev/already"}}
FlowKeyFiles ==
    {[k \in {DefaultKey, ArgKeyPath} |-> PemKeyFile],
     [k \in {DefaultKey, ArgKeyPath} |-> IF k = DefaultKey THEN PemKeyFile ELSE NoKeyFile],
     [k \in {DefaultKey, ArgKeyPath} |-> IF k = ArgKeyPath THEN PemKeyFile ELSE NoKeyFile]}
MissingBinary == [exists |-> FALSE, signed_with |-> None, mtime |-> 0]
SignedBinary(key) == [exists |-> TRUE, signed_with |-> key, mtime |-> 0]
FlowBinaries ==
    {<<MissingBinary, MissingBinary>>,
     <<UnsignedBinary, UnsignedBinary>>,
     <<SignedBinary(DefaultKey), SignedBinary(DefaultKey)>>,
     <<SignedBinary(ArgKeyPath), SignedBinary(ArgKeyPath)>>,
     <<SignedBinary(DefaultKey), UnsignedBinary>>}

UsesKey(script) == script \in {"burn_secure_boot", "burn_flash_encryption", "enable_secureboot"}

EntryPoint(script) ==
    CASE script = "enable_secureboot" -> "check_dependencies"
      [] script \in {"burn_efuse", "espwifiSecure"} -> "detect_port"
      [] OTHER -> "resolve_key"

Init ==
    \E script \in Scripts, port \in FlowPorts, devs \in FlowDevs,
       key \in {None, ArgKeyPath}, keys \in FlowKeyFiles, bins \in FlowBinaries,
       sb \in BOOLEAN, kb \in {"empty", "written"}, fc \in BOOLEAN,
       skip_build \in BOOLEAN, skip_upload \in BOOLEAN :
      /\ ~UsesKey(script) =>
            /\ key = None
            /\ keys = [k \in {DefaultKey, ArgKeyPath} |-> PemKeyFile]
            /\ bins = <<UnsignedBinary, UnsignedBinary>>
      /\ script # "enable_secureboot" => ~skip_build /\ ~skip_upload
      /\ script = "burn_flash_encryption" => ~sb /\ kb = "empty"
      /\ script # "burn_flash_encryption" => ~fc
      /\ argv = [script |-> script, port |-> port, key |-> key,
                 skip_build |-> skip_build, skip_upload |-> skip_upload]
      /\ files = [NoFiles EXCEPT !.keys = keys, !.bootloader = bins[1], !.firmware = bins[2],
                                 !.devs = devs]
      /\ device = [secure_boot_en |-> sb, key_block |-> kb, flash_crypt |-> fc]
      /\ summary = <<>>
      /\ info = NoInfo
      /\ pc = EntryPoint(script)
      /\ locals = FlowLocals
      /\ cmds = <<>>
      /\ globs = 0
      /\ exit = NotExited

Next ==
    \/ CheckDependencies
    \/ ResolveKeyStep
    \/ ResolvePortStep
    \/ DetectPortStep
    \/ VerifyDeviceStep
    \/ DetectChipStep
    \/ PreBurnChecksStep
    \/ DeviceStateStep
    \/ InlineDeviceStateStep
    \/ EspwifiSecureDeviceStateStep
    \/ KeyBlockStep
    \/ ConfirmStep
    \/ InlineConfirmStep
    \/ ExtractDigestStep
    \/ BurnKeyStep
    \/ BurnSecureBootEnStep
    \/ BurnFlashCryptStep
    \/ BuildStep
    \/ SignStep
    \/ ValidateStep
    \/ UploadStep
    \/ FinalInfoStep
    \/ EfuseInfoStep
    \/ EfuseConfirmStep

Spec == Init /\ [][Next]_vars

TypeOK ==
    /\ argv.script \in Scripts
    /\ exit \in {NotExited, 0, 1}
    /\ device.key_block \in {"empty", "written"}
    /\ locals.stage \in {"main", "burn"}

(***************************************************************************)
(* C1: at every confirmation prompt (prompt_burn_confirmation in           *)
(* burn_secure_boot, burn_flash_encryption and burn_secure_boot_efuse, the *)
(* inline prompts of burn_efuse.py and espwifiSecure.py), when the         *)
(* operator's input is not exactly "BURN" or the prompt is interrupted by  *)
(* Ctrl+C, the process has ended, no espefuse burn_efuse or burn-key       *)
(* command was ever invoked, and the step that read the input and every    *)
(* step after it leave the commands run, the files and the device as they  *)
(* were.                                                                   *)
(***************************************************************************)
Declined ==
    \/ locals.response.kind = "KeyboardInterrupt"
    \/ locals.response.kind = "line" /\ locals.response.text # "BURN"

C1_ConfirmationGate ==
    /\ [](Declined => exit # NotExited /\ ~BurnInvoked)
    /\ [][Declined' => cmds' = cmds /\ files' = files /\ device' = device]_vars

\* reached: the workflow's first prompt was answered BURN, the prompt inside
\* burn_secure_boot was answered "burn", and the process ended
C1_Witness ==
    /\ argv.script = "enable_secureboot" /\ locals.stage = "burn"
    /\ locals.response = Line("burn")
    /\ Declined /\ exit # NotExited /\ ~BurnInvoked

(***************************************************************************)
(* C2 as claimed: once the device inspector has reported secure boot       *)
(* enabled, a secure-boot burn flow (burn_secure_boot, burn_efuse of       *)
(* burn_efuse.py, burn_secure_boot_efuse of the workflow) invokes no       *)
(* espefuse burn_efuse or burn-key command and does not end with a failure *)
(* status, whatever the key block holds.                                   *)
(***************************************************************************)
ReportedEnabled ==
    /\ argv.script \in {"burn_secure_boot", "burn_efuse", "enable_secureboot"}
    /\ info.status = "return"
    /\ info.secure_boot_enabled = PyTrue

C2_NoBurnWhenAlreadyEnabled ==
    ReportedEnabled => ~BurnInvoked /\ exit \in {NotExited, 0}

(***************************************************************************)
(* C9: when no port is given and no existing path matches /dev/ttyUSB*,    *)
(* /dev/cu.usb* or /dev/cu.SLAB*, then once the patterns have been scanned *)
(* the process has ended with status 1 and no further command is invoked.  *)
(***************************************************************************)
NoPortNoMatch == argv.port = None /\ CommonPorts(files.devs) = <<>>
Scanned == globs > 0

C9_NoPortNoMatchFails ==
    /\ [](NoPortNoMatch /\ Scanned => exit = 1)
    /\ [][NoPortNoMatch /\ Scanned => cmds' = cmds]_vars

\* reached: a device exists at a path none of the patterns matches, the
\* workflow scanned for a port after `pio --version` and ended with status 1
C9_Witness ==
    /\ NoPortNoMatch /\ Scanned
    /\ argv.script = "enable_secureboot"
    /\ files.devs = {"/dev/ttyACM0"}
    /\ exit = 1 /\ cmds = <<"pio --version">>

(***************************************************************************)
(* C10 as claimed: enable_secureboot.main runs build, sign, validate,      *)
(* upload, final validate, burn in that order (build and upload left out   *)
(* when skipped); once something has failed in a step the run has ended    *)
(* with status 1 and no further command is invoked; a burn command is      *)
(* invoked only when every earlier step has run and none has failed.       *)
(***************************************************************************)
Workflow == argv.script = "enable_secureboot"
StepOrder == <<"build", "sign", "validate", "upload", "final_validate", "burn">>
NotSkipped(step) == ~(step = "build" /\ argv.skip_build) /\ ~(step = "upload" /\ argv.skip_upload)
ExpectedSteps == SelectSeq(StepOrder, NotSkipped)
IsPrefix(a, b) == Len(a) <= Len(b) /\ SubSeq(b, 1, Len(a)) = a
StepFailed == locals.failed # None

C10_OrderedAbortAtFirstFailure ==
    /\ [](Workflow => /\ IsPrefix(locals.steps, ExpectedSteps)
                      /\ StepFailed => exit = 1
                      /\ BurnInvoked => ~StepFailed /\ locals.steps = ExpectedSteps)
    /\ [][Workflow /\ StepFailed => cmds' = cmds]_vars

(***************************************************************************)
(* C11 as claimed: whenever an espefuse burn command (burn-key,            *)
(* burn_efuse) invoked after the confirmation timed out or exited nonzero, *)
(* the script has ended with a failure status and has not printed that the *)
(* burn succeeded or that the setup is complete.                           *)
(***************************************************************************)
BurnFailed == locals.burn_failed # None

C11_BurnFailureIsFailure ==
    BurnFailed => exit = 1 /\ ~locals.complete

(***************************************************************************)
(* C12 as claimed: a burn script exits with status 0 only when the run     *)
(* succeeded: its last burn command completed, or no burn was needed       *)
(* because the inspector reported the fuse already set.  A run that ended  *)
(* on a failed validation or a failed burn, or because the operator did    *)
(* not confirm, does not exit 0.                                           *)
(***************************************************************************)
BurnCompleted ==
    /\ cmds # <<>> /\ cmds[Len(cmds)] \in BurnCommands
    /\ ~BurnFailed

FuseAlreadySet ==
    /\ info.status = "return"
    /\ IF argv.script = "burn_flash_encryption"
       THEN info.flash_encryption = PyTrue
       ELSE info.secure_boot_enabled = PyTrue
    /\ ~BurnInvoked

RunSucceeded == ~Declined /\ (BurnCompleted \/ FuseAlreadySet)

C12_ExitZeroOnlyOnSuccess ==
    exit = 0 => RunSucceeded

(***************************************************************************)
(* C13: in burn_secure_boot and burn_flash_encryption an espefuse burn     *)
(* command has been invoked only if, earlier in the same call and in this  *)
(* order, the key file was validated, the device was found accessible, the *)
(* pre-burn validation passed, the device state was inspected and the      *)
(* operator answered "BURN"; the key file is then valid and both binaries  *)
(* carry a signature the key verifies.                                     *)
(***************************************************************************)
GatedFlow == Flow \in {"burn_secure_boot", "burn_flash_encryption"}
RequiredChecks == <<"key", "device", "pre_burn", "state", "confirm">>
LastChecks ==
    IF Len(locals.checks) <= Len(RequiredChecks) THEN locals.checks
    ELSE SubSeq(locals.checks, Len(locals.checks) - Len(RequiredChecks) + 1, Len(locals.checks))

C13_VerifyThenBurn ==
    (GatedFlow /\ BurnInvoked) =>
        /\ LastChecks = RequiredChecks
        /\ locals.response = Line("BURN")
        /\ ValidateKeyFile(KeyFileAt(files, locals.key))
        /\ VerifySignedBinaries(files, locals.key).ok

\* reached: burn_flash_encryption invoked its burn command after the five
\* checks, with a key given on the command line
C13_Witness ==
    /\ argv.script = "burn_flash_encryption" /\ argv.key = ArgKeyPath
    /\ BurnInvoked
    /\ locals.checks = RequiredChecks

(***************************************************************************)
(* Key generation: generate_key of gen_keys.py, gen_sb_keys.py,            *)
(* generate_sb_keys.py and espwifiSecure.py (gen_key).  files.keys[out] is *)
(* the file at the output path, with its content ("old" for a file that    *)
(* was there before the run) and mode; files.pub is the public key file    *)
(* gen_keys.py writes next to it.                                          *)
(***************************************************************************)
GenScripts == {"gen_keys", "gen_sb_keys", "generate_sb_keys", "espwifiSecure gen_key"}
GenOut == "/keys/out.pem"

NoGenFile == [exists |-> FALSE, content |-> "", mode |-> ""]
GenFile(content, mode) == [exists |-> TRUE, content |-> content, mode |-> mode]
ExistingGenFiles == {GenFile("old", "0600"), GenFile("old", "0644")}

\* RefusesOverwrite that never refuses
RefusesOverwrite_Never(script, exists, force) == FALSE

\* `if out_path.exists():` and, in generate_sb_keys.py,
\* `if out_path.exists() and not force:`
RefusesOverwrite(script, exists, force) ==
    IF script = "generate_sb_keys" THEN exists /\ ~force ELSE exists

InitGen ==
    /\ \E script \in GenScripts, force \in BOOLEAN, extract_pub \in BOOLEAN :
         /\ script # "generate_sb_keys" => ~force
         /\ script # "gen_keys" => ~extract_pub
         /\ argv = [script |-> script, out |-> GenOut, force |-> force, extract_pub |-> extract_pub]
    /\ \E kf \in {NoGenFile} \cup ExistingGenFiles, pub \in {NoGenFile, GenFile("old", "0644")} :
         /\ files = [keys |-> [k \in {GenOut} |-> kf], pub |-> pub]
         /\ locals = [existing |-> kf, failed |-> <<>>, done |-> FALSE]
    /\ device = NoDevice
    /\ summary = <<>>
    /\ info = NoInfo
    /\ pc = "generate_key"
    /\ cmds = <<>>
    /\ globs = 0
    /\ exit = NotExited

\* the test at the head of generate_key; mkdir of the parent directory
GenerateKeyGuard ==
    /\ Running /\ pc = "generate_key"
    /\ LET refuse == RefusesOverwrite(argv.script, files.keys[argv.out].exists, argv.force)
       IN  /\ exit' = IF refuse THEN 1 ELSE exit
           /\ pc' = IF refuse THEN pc ELSE "cmd_new"
    /\ UNCHANGED <<argv, files, device, summary, info, locals, cmds, globs>>

\* what a successful generate command followed by os.chmod leaves
GeneratedKey == GenFile("new", "0600")

\* subprocess.check_call(cmd_new); os.chmod when it succeeds
GenerateKeyNew ==
    /\ Running /\ pc = "cmd_new"
    /\ \E result \in {"ok", "nonzero"} :
         /\ files' = IF result = "ok" THEN [files EXCEPT !.keys[argv.out] = GeneratedKey] ELSE files
         /\ locals' = [locals EXCEPT
                          !.failed = IF result = "ok" THEN @ ELSE Append(@, "generate-signing-key"),
                          !.done = result = "ok" /\ ~argv.extract_pub]
         /\ exit' = IF result = "ok" /\ ~argv.extract_pub THEN 0 ELSE exit
         /\ pc' = IF result # "ok" THEN "cmd_old"
                  ELSE IF argv.extract_pub THEN "extract_public_key" ELSE pc
    /\ cmds' = Append(cmds, "generate-signing-key")
    /\ UNCHANGED <<argv, device, summary, info, globs>>

\* except CalledProcessError: subprocess.check_call(cmd_old); its own
\* CalledProcessError is not caught
GenerateKeyOld ==
    /\ Running /\ pc = "cmd_old"
    /\ \E result \in {"ok", "nonzero"} :
         /\ files' = IF result = "ok" THEN [files EXCEPT !.keys[argv.out] = GeneratedKey] ELSE files
         /\ locals' = [locals EXCEPT
                          !.failed = IF result = "ok" THEN @ ELSE Append(@, "generate_signing_key"),
                          !.done = result = "ok" /\ ~argv.extract_pub]
         /\ exit' = IF result # "ok" THEN 1
                    ELSE IF argv.extract_pub THEN exit ELSE 0
         /\ pc' = IF result = "ok" /\ argv.extract_pub THEN "extract_public_key" ELSE pc
    /\ cmds' = Append(cmds, "generate_signing_key")
    /\ UNCHANGED <<argv, device, summary, info, globs>>

\* gen_keys.py: extract_public_key(out_path) inside try/except SystemExit,
\* then the "Done" message
ExtractPublicKeyStep ==
    /\ Running /\ pc = "extract_public_key"
    /\ \E result \in {"ok", "nonzero", "FileNotFoundError"} :
         /\ files' = IF result = "ok" THEN [files EXCEPT !.pub = GenFile("new", "0644")] ELSE files
         /\ locals' = [locals EXCEPT
                          !.failed = IF result = "ok" THEN @ ELSE Append(@, "openssl pkey"),
                          !.done = TRUE]
    /\ cmds' = Append(cmds, "openssl pkey")
    /\ exit' = 0
    /\ UNCHANGED <<argv, device, summary, info, pc, globs>>

NextGen ==
    \/ GenerateKeyGuard
    \/ GenerateKeyNew
    \/ GenerateKeyOld
    \/ ExtractPublicKeyStep

SpecGen == InitGen /\ [][NextGen]_vars

(***************************************************************************)
(* C14: when the output path already exists, generate_key of gen_keys.py,  *)
(* gen_sb_keys.py and espwifiSecure.py, and of generate_sb_keys.py without *)
(* --force, ends with a failure status without invoking a key-generation   *)
(* command, and the existing key file keeps its content and mode.          *)
(***************************************************************************)
KeyExisted == locals.existing.exists
Forced == argv.script = "generate_sb_keys" /\ argv.force

C14_NeverOverwritesKey ==
    (KeyExisted /\ ~Forced) =>
        /\ cmds = <<>>
        /\ files.keys[argv.out] = locals.existing
        /\ exit \in {NotExited, 1}
        /\ pc = "generate_key"

\* reached: generate_sb_keys.py without --force has refused an existing key
C14_Witness ==
    /\ argv.script = "generate_sb_keys" /\ ~argv.force
    /\ KeyExisted /\ exit = 1
    /\ files.keys[argv.out] = locals.existing

\* reached: generate_sb_keys.py --force has replaced an existing key
C14_WitnessForced ==
    /\ Forced /\ KeyExisted
    /\ files.keys[argv.out] = GeneratedKey

(***************************************************************************)
(* C20 as claimed, for the key-generation scripts: once an external        *)
(* command of the run has failed the process has ended with a failure      *)
(* status, and after a failed command no further command is invoked and no *)
(* file is written.                                                        *)
(***************************************************************************)
CommandFailed == locals.failed # <<>>

C20_FailuresAreTerminal ==
    /\ [](CommandFailed => exit = 1)
    /\ [][CommandFailed => cmds' = cmds /\ files' = files]_vars

(***************************************************************************)
(* C15: in the workflow, --skip-build leaves `pio run` uninvoked and       *)
(* --skip-upload leaves `pio run -t upload` uninvoked; the remaining steps *)
(* run in the order sign, validate, final validate, burn, a burn is only   *)
(* reached after all of them, a failed validation or a failed firmware     *)
(* signature ends the run with a failure status, and nothing is invoked    *)
(* after the run has ended.                                                *)
(***************************************************************************)
BuildCommand == "pio run"
UploadCommand == "pio run -t upload"
OtherSteps == <<"sign", "validate", "final_validate", "burn">>
IsOtherStep(step) == step \in Range(OtherSteps)
SignAborts == locals.sign.firmware = "failed"
ValidationFailed == locals.failed \in {"validate", "final_validate"}

C15_SkipFlags ==
    /\ [](Workflow =>
            /\ argv.skip_build => BuildCommand \notin Range(cmds)
            /\ argv.skip_upload => UploadCommand \notin Range(cmds)
            /\ IsPrefix(SelectSeq(locals.steps, IsOtherStep), OtherSteps)
            /\ BurnInvoked => SelectSeq(locals.steps, IsOtherStep) = OtherSteps
            /\ (SignAborts \/ ValidationFailed) => exit = 1 /\ ~BurnInvoked)
    /\ [][Workflow /\ exit # NotExited => cmds' = cmds /\ locals' = locals]_vars

\* reached: a run with both flags has gone through sign, validate and final
\* validate and has invoked a burn command
C15_Witness ==
    /\ Workflow /\ argv.skip_build /\ argv.skip_upload
    /\ BurnInvoked
    /\ locals.steps = OtherSteps

\* reached: a run with both flags was ended by its final validation
C15_WitnessAbort ==
    /\ Workflow /\ argv.skip_build /\ argv.skip_upload
    /\ locals.failed = "final_validate" /\ exit = 1

(***************************************************************************)
(* C17 as claimed: a run of burn_efuse.py on a device whose summary        *)
(* reports secure boot not enabled does not end before the operator was    *)
(* prompted, and once the operator has typed "BURN" it does not end        *)
(* without having invoked `espefuse burn_efuse SECURE_BOOT_EN`.            *)
(***************************************************************************)
ReportedNotEnabled ==
    /\ argv.script = "burn_efuse"
    /\ info.status = "return"
    /\ info.secure_boot_enabled = PyFalse
Prompted == locals.response # NoResponse

C17_BurnEfuseBurnsWhenNotEnabled ==
    (ReportedNotEnabled /\ exit # NotExited) =>
        /\ Prompted
        /\ locals.response = Line("BURN") => "burn_efuse SECURE_BOOT_EN" \in Range(cmds)

(***************************************************************************)
(* C18: in burn_secure_boot, `burn_efuse SECURE_BOOT_EN` is invoked only   *)
(* right after the digest extraction and a burn-key command of the same    *)
(* run that both succeeded, with the digest in BLOCK_KEY0; it is never     *)
(* invoked in a run whose digest extraction or burn-key command failed or  *)
(* timed out.                                                              *)
(***************************************************************************)
InBurnSecureBoot == Flow = "burn_secure_boot"
SecureBootEnBurn == "burn_efuse SECURE_BOOT_EN"
LastCommands(n) == IF Len(cmds) < n THEN <<>> ELSE SubSeq(cmds, Len(cmds) - n + 1, Len(cmds))
DigestOrKeyFailed == locals.digest = "failed" \/ locals.burn_failed = "burn-key"

C18_DigestBeforeSecureBootEn ==
    /\ []((InBurnSecureBoot /\ SecureBootEnBurn \in Range(cmds)) =>
             /\ LastCommands(3) = <<"openssl pkey", "burn-key", SecureBootEnBurn>>
             /\ locals.digest = "extracted")
    /\ []((InBurnSecureBoot /\ DigestOrKeyFailed) =>
             SecureBootEnBurn \notin Range(cmds) /\ exit = 1)
    /\ [][(InBurnSecureBoot /\ cmds' = Append(cmds, SecureBootEnBurn)) =>
             /\ locals.digest = "extracted"
             /\ locals.burn_failed = None
             /\ device.key_block = "written"]_vars

\* reached: SECURE_BOOT_EN was burned after the digest was burned
C18_Witness ==
    /\ argv.script = "burn_secure_boot"
    /\ LastCommands(3) = <<"openssl pkey", "burn-key", SecureBootEnBurn>>
    /\ device.secure_boot_en /\ device.key_block = "written"

\* reached: the burn-key command timed out and the run ended there
C18_WitnessTimeout ==
    /\ InBurnSecureBoot
    /\ locals.burn_failed = "burn-key" /\ exit = 1
    /\ LastCommands(1) = <<"burn-key">>

(***************************************************************************)
(* C21 as claimed: in a workflow run, once the sign step has run, the key  *)
(* sign_binaries.py signed with is the key the run resolved (the explicit  *)
(* --key when given), the one the validate steps verify against and the    *)
(* burn step takes the digest of.                                          *)
(***************************************************************************)
SignStepRan == Workflow /\ "sign" \in Range(locals.steps)

C21_OneKeyPerRun == SignStepRan => locals.sign.key = locals.key

(***************************************************************************)
(* C23 as claimed: when the sign step has run sign_binaries.py and the     *)
(* signing (or the verification after it) of an existing bootloader or of  *)
(* an existing firmware failed, the script exited nonzero and the          *)
(* workflow run has ended with a failure status.                           *)
(***************************************************************************)
SigningFailed == locals.sign.bootloader = "failed" \/ locals.sign.firmware = "failed"

C23_SigningFailureExitsNonzero == (SignStepRan /\ SigningFailed) => exit = 1

(***************************************************************************)
(* Specification of sign_binary alone: one call on any state of the        *)
(* binary, of the key file and of the espsecure script, with any outcome   *)
(* of the commands it runs.                                                *)
(***************************************************************************)
InitSign ==
    /\ \E name \in {"bootloader", "firmware"}, sign \in SignOutcomes, verify \in SignOutcomes :
         argv = [script |-> "sign_binary", name |-> name, key |-> GateKey,
                 tool |-> Tool(sign, verify)]
    /\ \E kf \in KeyFileSamples, bin \in BinarySamples, script \in {"ok", "error", "missing"} :
         files = WithBinary([NoFiles EXCEPT !.keys = [k \in {GateKey} |-> kf],
                                            !.espsecure = script],
                            argv.name, bin)
    /\ device = NoDevice
    /\ summary = <<>>
    /\ info = NoInfo
    /\ pc = "call"
    /\ locals = NoLocals
    /\ cmds = <<>>
    /\ globs = 0
    /\ exit = NotExited

\* sign_binary(binary_path, key_path)
SignBinaryCall ==
    /\ argv.script = "sign_binary"
    /\ pc = "call"
    /\ LET r == SignBinary(files, argv.name, argv.key, argv.tool)
       IN  /\ locals' = [ok |-> r.ok, raised |-> r.raised, tmp_left |-> r.tmp_left]
           /\ files' = r.fs
           /\ cmds' = cmds \o r.cmds
    /\ pc' = "return"
    /\ UNCHANGED <<argv, device, summary, info, globs, exit>>

NextSign == SignBinaryCall

SpecSign == InitSign /\ [][NextSign]_vars

(***************************************************************************)
(* C24: sign_binary returns True only if sign_data exited 0 and the        *)
(* verify_signature that followed, of the same binary with the same key,   *)
(* returned True; when the binary, the key or the espsecure script is      *)
(* missing it returns False and invokes nothing; and it returns, rather    *)
(* than raises, when a signing or verification command fails.              *)
(***************************************************************************)
SignReturned == pc = "return" /\ argv.script = "sign_binary"
SignInvoked == "sign_data " \o argv.name
VerifyInvoked == "verify_signature " \o argv.name
SomethingMissing ==
    \/ ~Binary(files, argv.name).exists
    \/ ~KeyFileAt(files, argv.key).exists
    \/ files.espsecure = "missing"

C24_SignThenVerify ==
    SignReturned =>
        /\ locals.ok =>
              /\ argv.tool = ToolOk
              /\ cmds = <<SignInvoked, "extract_public_key", VerifyInvoked>>
              /\ Binary(files, argv.name).signed_with = argv.key
        /\ SomethingMissing => ~locals.ok /\ cmds = <<>>
        /\ ~locals.raised

\* reached: sign_data exited 0, the verification after it failed, and
\* sign_binary returned False
C24_Witness ==
    /\ SignReturned
    /\ argv.tool = Tool("ok", "CalledProcessError")
    /\ cmds = <<SignInvoked, "extract_public_key", VerifyInvoked>>
    /\ ~locals.ok /\ ~locals.raised

\* reached: sign_binary returned True
C24_WitnessSigned ==
    /\ SignReturned /\ locals.ok
    /\ Binary(files, argv.name).signed_with = argv.key

(***************************************************************************)
(* secure_boot_pre.py, the PlatformIO pre-build script: ensure_keys() and  *)
(* the check after it.  files.priv and files.pub are the two key files     *)
(* ("old" content for a file that was there before the run), files.which   *)
(* is what `shutil.which("espsecure") or shutil.which("espsecure.py")`     *)
(* gives.  A command that exits 0 has written its output file.             *)
(* env.Exit(1) ends the script with status 1.                              *)
(***************************************************************************)
InitPre ==
    /\ argv = [script |-> "secure_boot_pre"]
    /\ \E priv \in {NoGenFile} \cup ExistingGenFiles, pub \in {NoGenFile} \cup ExistingGenFiles,
          which \in {None, "espsecure", "espsecure.py"} :
         /\ files = [priv |-> priv, pub |-> pub, which |-> which]
         /\ locals = [existing |-> priv, failed |-> <<>>, unlinked |-> FALSE]
    /\ device = NoDevice
    /\ summary = <<>>
    /\ info = NoInfo
    /\ pc = "ensure_keys"
    /\ cmds = <<>>
    /\ globs = 0
    /\ exit = NotExited

\* ensure_keys up to its first command: mkdir, shutil.which, and the two
\* `if not ... exists()` tests that decide what is run first
EnsureKeysStart ==
    /\ Running /\ pc = "ensure_keys"
    /\ exit' = IF files.which # None THEN exit ELSE 1
    /\ pc' = IF files.which = None THEN pc
             ELSE IF ~files.priv.exists THEN "generate"
             ELSE IF ~files.pub.exists THEN "extract"
             ELSE "hardening"
    /\ UNCHANGED <<argv, files, device, summary, info, locals, cmds, globs>>

\* os.system(cmd_gen): the first generation, and the one after the private
\* key was deleted
GeneratePrivStep ==
    /\ Running /\ pc \in {"generate", "regenerate"}
    /\ \E result \in {"ok", "nonzero"} :
         /\ files' = IF result = "ok" THEN [files EXCEPT !.priv = GenFile("new", "0644")] ELSE files
         /\ locals' = [locals EXCEPT !.failed = IF result = "ok" THEN @
                                                ELSE Append(@, "generate-signing-key")]
         /\ exit' = IF result = "ok" THEN exit ELSE 1
         /\ pc' = IF result # "ok" THEN pc
                  ELSE IF pc = "regenerate" THEN "extract_again"
                  ELSE IF ~files.pub.exists THEN "extract"
                  ELSE "hardening"
    /\ cmds' = Append(cmds, "generate-signing-key")
    /\ UNCHANGED <<argv, device, summary, info, globs>>

\* ExtractPubStep that only warns when the second extraction fails
ExtractPubStep_WarnOnly ==
    /\ Running /\ pc \in {"extract", "extract_again"}
    /\ \E result \in {"ok", "nonzero"} :
         /\ files' = IF result = "ok" THEN [files EXCEPT !.pub = GenFile("new", "0644")]
                     ELSE IF pc = "extract" THEN [files EXCEPT !.priv = NoGenFile, !.pub = NoGenFile]
                     ELSE files
         /\ locals' = [locals EXCEPT
                          !.failed = IF result = "ok" THEN @ ELSE Append(@, "extract-public-key"),
                          !.unlinked = @ \/ (result # "ok" /\ pc = "extract" /\ files.priv.exists)]
         /\ exit' = exit
         /\ pc' = IF result = "ok" THEN "hardening"
                  ELSE IF pc = "extract" THEN "regenerate"
                  ELSE "hardening"
    /\ cmds' = Append(cmds, "extract-public-key")
    /\ UNCHANGED <<argv, device, summary, info, globs>>

\* os.system(cmd_pub).  When the first extraction fails the private key and
\* the public key are unlinked and the key is generated again; when the
\* second one fails the script ends.
ExtractPubStep ==
    /\ Running /\ pc \in {"extract", "extract_again"}
    /\ \E result \in {"ok", "nonzero"} :
         /\ files' = IF result = "ok" THEN [files EXCEPT !.pub = GenFile("new", "0644")]
                     ELSE IF pc = "extract" THEN [files EXCEPT !.priv = NoGenFile, !.pub = NoGenFile]
                     ELSE files
         /\ locals' = [locals EXCEPT
                          !.failed = IF result = "ok" THEN @ ELSE Append(@, "extract-public-key"),
                          !.unlinked = @ \/ (result # "ok" /\ pc = "extract" /\ files.priv.exists)]
         /\ exit' = IF result # "ok" /\ pc = "extract_again" THEN 1 ELSE exit
         /\ pc' = IF result = "ok" THEN "hardening"
                  ELSE IF pc = "extract" THEN "regenerate"
                  ELSE pc
    /\ cmds' = Append(cmds, "extract-public-key")
    /\ UNCHANGED <<argv, device, summary, info, globs>>

\* the end of ensure_keys and `if not priv_key.exists(): env.Exit(1)` after
\* it; the script is then done
HardeningStep ==
    /\ Running /\ pc = "hardening"
    /\ exit' = IF files.priv.exists THEN 0 ELSE 1
    /\ UNCHANGED <<argv, files, device, summary, info, pc, locals, cmds, globs>>

NextPre ==
    \/ EnsureKeysStart
    \/ GeneratePrivStep
    \/ ExtractPubStep
    \/ HardeningStep

SpecPre == InitPre /\ [][NextPre]_vars

(***************************************************************************)
(* C25 as claimed: a private key file that exists when ensure_keys starts  *)
(* is still there, with the content it had, in every later state of the    *)
(* run, and no generate-signing-key command is invoked in such a run.      *)
(***************************************************************************)
PrivExisted == argv.script = "secure_boot_pre" /\ locals.existing.exists

C25_ExistingPrivateKeyKept ==
    PrivExisted =>
        /\ files.priv = locals.existing
        /\ "generate-signing-key" \notin Range(cmds)

(***************************************************************************)
(* C26: when secure_boot_pre.py has got past ensure_keys and the check     *)
(* after it without env.Exit(1), the private and the public key file both  *)
(* exist; and a run in which key generation failed, or public-key          *)
(* extraction failed for the second time, has ended through env.Exit(1).   *)
(***************************************************************************)
PreCompleted == argv.script = "secure_boot_pre" /\ exit = 0
UltimatelyFailed ==
    \/ "generate-signing-key" \in Range(locals.failed)
    \/ Len(SelectSeq(locals.failed, LAMBDA c : c = "extract-public-key")) = 2

C26_EnsureKeysPostcondition ==
    /\ PreCompleted => files.priv.exists /\ files.pub.exists
    /\ UltimatelyFailed => exit = 1

\* reached: the script completed after generating both keys
C26_Witness ==
    /\ PreCompleted
    /\ ~locals.existing.exists
    /\ cmds = <<"generate-signing-key", "extract-public-key">>
    /\ files.priv.exists /\ files.pub.exists

\* reached: the second extraction failed and the script ended with status 1
C26_WitnessExit ==
    /\ argv.script = "secure_boot_pre"
    /\ Len(locals.failed) = 2 /\ locals.failed[2] = "extract-public-key"
    /\ exit = 1

(***************************************************************************)
(* check_secure_boot_key.py.  A byte is the two-character string the       *)
(* regular expression keeps, a digest is the string "".join makes of them. *)
(* device.hex_bytes is what the output of dump_blocks BLOCK_KEY0 yields as *)
(* hex_bytes, device.key_data what the output of the fallback `espefuse    *)
(* dump` yields as key_data.                                               *)
(***************************************************************************)
MaxDumpWords == 9

RECURSIVE Join(_)
Join(strs) == IF strs = <<>> THEN "" ELSE Head(strs) \o Join(Tail(strs))

RECURSIVE Flatten(_)
Flatten(seqs) == IF seqs = <<>> THEN <<>> ELSE Head(seqs) \o Flatten(Tail(seqs))

Reversed(s) == [i \in 1..Len(s) |-> s[Len(s) + 1 - i]]

\* get_device_key_digest that joins the first 32 bytes as they come
ReconstructDigest_NoReverse(hex_bytes) ==
    IF Len(hex_bytes) >= 32
    THEN Join(Flatten([word_idx \in 1..8 |->
                          SubSeq(hex_bytes, (word_idx - 1) * 4 + 1, word_idx * 4)]))
    ELSE None

\* `if len(hex_bytes) >= 32:` of get_device_key_digest: the bytes of each of
\* the first eight 4-byte words reversed, joined; None stands for falling
\* through to the fallback (the joined string always has 64 characters)
ReconstructDigest(hex_bytes) ==
    IF Len(hex_bytes) >= 32
    THEN Join(Flatten([word_idx \in 1..8 |->
                          Reversed(SubSeq(hex_bytes, (word_idx - 1) * 4 + 1, word_idx * 4))]))
    ELSE None

\* get_device_key_digest(port): the digest or None, and the commands invoked
GetDeviceKeyDigest(result, hex_bytes, result2, key_data) ==
    IF result # "ok" THEN [digest |-> None, cmds |-> <<"dump_blocks">>]
    ELSE IF ReconstructDigest(hex_bytes) # None
    THEN [digest |-> ReconstructDigest(hex_bytes), cmds |-> <<"dump_blocks">>]
    ELSE IF result2 # "ok" THEN [digest |-> None, cmds |-> <<"dump_blocks", "dump">>]
    ELSE IF Len(key_data) >= 8 /\ Len(Join(SubSeq(key_data, 1, 8))) = 64
    THEN [digest |-> Join(SubSeq(key_data, 1, 8)), cmds |-> <<"dump_blocks", "dump">>]
    ELSE [digest |-> None, cmds |-> <<"dump_blocks", "dump">>]

\* two 4-byte words as dump_blocks prints them, and the SHA-256 digest of
\* the public key of the signing key: the digest whose words, stored byte
\* by byte in reverse, are WordA WordB WordA WordB ...
WordA == <<"3b", "ab", "e8", "ee">>
WordB == <<"00", "01", "02", "03">>
DumpWordSamples == {WordA, WordB}
StoredWords == [i \in 1..8 |-> IF i % 2 = 1 THEN WordA ELSE WordB]
KeyDigest == Join(Flatten([i \in 1..8 |-> Reversed(StoredWords[i])]))
KeyDataSamples == {<<>>, [i \in 1..8 |-> Join(Reversed(StoredWords[i]))],
                   [i \in 1..8 |-> "00000000"]}

InitCheck ==
    /\ \E port \in {None, "/dev/ttyUSB0"} : argv = [NoArgs("check_secure_boot_key") EXCEPT !.port = port]
    /\ \E kf \in {PemKeyFile, NoKeyFile}, devs \in {{}, {"/dev/ttyUSB0"}} :
         files = [NoFiles EXCEPT !.keys = [k \in {DefaultKey} |-> kf], !.devs = devs]
    /\ \E words \in SeqsUpTo(DumpWordSamples, MaxDumpWords), key_data \in KeyDataSamples :
         /\ (argv.port = None \/ files.devs = {} \/ ~files.keys[DefaultKey].exists) =>
                words = <<>> /\ key_data = <<>>
         /\ device = [hex_bytes |-> Flatten(words), key_data |-> key_data]
    /\ summary = <<>>
    /\ info = NoInfo
    /\ pc = "main"
    /\ locals = [key |-> None, port |-> None, key_digest |-> None, device_digest |-> None,
                 dump_blocks |-> None]
    /\ cmds = <<>>
    /\ globs = 0
    /\ exit = NotExited

\* main: signing_key_path(), `if not key.exists()`, resolve_port(args.port)
CheckStartStep ==
    /\ Running /\ pc = "main"
    /\ LET key == SigningKeyPath(files)
           r == ResolvePort(argv.port, files.devs)
           found == KeyFileAt(files, key).exists
       IN  /\ locals' = [locals EXCEPT !.key = key, !.port = IF found THEN r.port ELSE @]
           /\ globs' = IF found THEN globs + r.globs ELSE globs
           /\ exit' = IF found /\ r.status = "return" THEN exit ELSE 1
           /\ pc' = IF found /\ r.status = "return" THEN "key_digest" ELSE pc
    /\ UNCHANGED <<argv, files, device, summary, info, cmds>>

\* extract_public_key_digest(key) and `if not key_digest:`
KeyDigestStep ==
    /\ Running /\ pc = "key_digest"
    /\ \E result \in {"ok", "nonzero", "FileNotFoundError"} :
         LET key_digest == IF result = "ok" THEN KeyDigest ELSE None
         IN  /\ locals' = [locals EXCEPT !.key_digest = key_digest]
             /\ exit' = IF key_digest = None THEN 1 ELSE exit
             /\ pc' = IF key_digest = None THEN pc ELSE "device_digest"
    /\ cmds' = Append(cmds, "openssl pkey")
    /\ UNCHANGED <<argv, files, device, summary, info, globs>>

\* CompareStep that reports a match whenever a device digest was read
DeviceDigestStep_AnyDigest ==
    /\ Running /\ pc = "device_digest"
    /\ \E result \in {"ok", "nonzero"}, result2 \in {"ok", "nonzero"} :
         LET r == GetDeviceKeyDigest(result, device.hex_bytes, result2, device.key_data)
         IN  /\ result # "ok" => result2 = "nonzero"
             /\ locals' = [locals EXCEPT !.device_digest = r.digest, !.dump_blocks = result]
             /\ cmds' = cmds \o r.cmds
             /\ exit' = IF r.digest = None THEN 1 ELSE 0
    /\ UNCHANGED <<argv, files, device, summary, info, pc, globs>>

\* get_device_key_digest(port), `if not device_digest:`, and the comparison
DeviceDigestStep ==
    /\ Running /\ pc = "device_digest"
    /\ \E result \in {"ok", "nonzero"}, result2 \in {"ok", "nonzero"} :
         LET r == GetDeviceKeyDigest(result, device.hex_bytes, result2, device.key_data)
         IN  /\ result # "ok" => result2 = "nonzero"
             /\ locals' = [locals EXCEPT !.device_digest = r.digest, !.dump_blocks = result]
             /\ cmds' = cmds \o r.cmds
             /\ exit' = IF r.digest = None THEN 1
                        ELSE IF locals.key_digest = r.digest THEN 0
                        ELSE 1
    /\ UNCHANGED <<argv, files, device, summary, info, pc, globs>>

NextCheck ==
    \/ CheckStartStep
    \/ KeyDigestStep
    \/ DeviceDigestStep

SpecCheck == InitCheck /\ [][NextCheck]_vars

(***************************************************************************)
(* C27: check_secure_boot_key.main exits with status 0 exactly when the    *)
(* digest of the signing key and the digest read from the device were both *)
(* obtained and are equal; every other run that has ended (a missing key,  *)
(* no port, a digest that could not be obtained, a mismatch) has status 1. *)
(***************************************************************************)
BothDigestsEqual ==
    /\ locals.key_digest # None
    /\ locals.device_digest # None
    /\ locals.key_digest = locals.device_digest

C27_KeyMatchVerdict ==
    exit # NotExited =>
        /\ exit \in {0, 1}
        /\ exit = 0 <=> BothDigestsEqual

\* reached: both digests were obtained, they differ, and the status is 1
C27_Witness ==
    /\ locals.key_digest # None /\ locals.device_digest # None
    /\ locals.key_digest # locals.device_digest
    /\ exit = 1

\* reached: the device holds the digest of the signing key and the status is 0
C27_WitnessMatch ==
    /\ BothDigestsEqual /\ exit = 0
    /\ cmds = <<"openssl pkey", "dump_blocks">>

(***************************************************************************)
(* C28: for hex_bytes b0 b1 ... of at least 32 bytes, the digest           *)
(* get_device_key_digest returns is b3 b2 b1 b0 b7 b6 b5 b4 ... b31 b30    *)
(* b29 b28: 64 characters, each of the first eight 4-byte words with its   *)
(* bytes reversed, the words in their order; applied to its own result it  *)
(* gives the first 32 bytes back.                                          *)
(***************************************************************************)
\* dump_blocks BLOCK_KEY0 ran and exited with status 0
DigestRead == pc = "device_digest" /\ exit # NotExited /\ locals.dump_blocks = "ok"
Bytes(digest) == [i \in 1..(Len(digest) \div 2) |-> SubSeq(digest, 2 * i - 1, 2 * i)]

C28_DigestByteOrder ==
    (DigestRead /\ Len(device.hex_bytes) >= 32) =>
        /\ Len(locals.device_digest) = 64
        /\ \A w \in 0..7 : \A k \in 0..3 :
              Bytes(locals.device_digest)[4 * w + k + 1] = device.hex_bytes[4 * w + (3 - k) + 1]
        /\ ReconstructDigest(Bytes(locals.device_digest)) = Join(SubSeq(device.hex_bytes, 1, 32))

\* reached: a dump of nine words whose first two differ gave a digest
C28_Witness ==
    /\ DigestRead
    /\ Len(device.hex_bytes) = 36
    /\ SubSeq(device.hex_bytes, 1, 8) = WordA \o WordB
    /\ SubSeq(locals.device_digest, 1, 16) = "eee8ab3b03020100"

(***************************************************************************)
(* ensure_sdkconfig.py.  The content of a text file is the sequence of its *)
(* lines (what splitlines() returns) and whether the last line is          *)
(* terminated by a newline; with nl = FALSE the last line is not empty,    *)
(* and the empty content is [lines |-> <<>>, nl |-> FALSE].                *)
(***************************************************************************)
MaxMergeLines == 2

Text(lines, nl) == [exists |-> TRUE, lines |-> lines, nl |-> nl]
EmptyText == Text(<<>>, FALSE)
NoText == [exists |-> FALSE, lines |-> <<>>, nl |-> FALSE]
MergeVocab == {"CONFIG_A=y", "CONFIG_B=y", ""}
Texts == {t \in [exists : {TRUE}, lines : SeqsUpTo(MergeVocab, MaxMergeLines), nl : BOOLEAN] :
              IF t.lines = <<>> THEN ~t.nl ELSE t.nl \/ t.lines[Len(t.lines)] # ""}

\* the orders in which "\n".join may take the lines of a set
Orders(S) == {o \in [1..Cardinality(S) -> S] : \A i, j \in 1..Cardinality(S) : o[i] = o[j] => i = j}

\* `existing_lines - source_lines`; an empty existing_content is falsy
AdditionalLines(content, existing_content) ==
    IF existing_content.lines = <<>> THEN {}
    ELSE Range(existing_content.lines) \ Range(content.lines)

\* the merge that appends every line of the existing destination
Merged_KeepExisting(content, existing_content, order) ==
    IF existing_content.lines = <<>> THEN content
    ELSE Text(content.lines
                \o (IF content.nl \/ content.lines = <<>> THEN <<"">> ELSE <<>>)
                \o existing_content.lines, TRUE)

\* what the three writes leave in the destination: content, and when there
\* are additional lines "\n", the lines joined by "\n", and "\n"
Merged(content, existing_content, order) ==
    IF AdditionalLines(content, existing_content) = {} THEN content
    ELSE Text(content.lines
                \o (IF content.nl \/ content.lines = <<>> THEN <<"">> ELSE <<>>)
                \o order, TRUE)

InitSdk ==
    /\ \E sdkconfig_source \in {"", "sdkconfig.defaults"} :
         argv = [script |-> "ensure_sdkconfig", sdkconfig |-> sdkconfig_source]
    /\ \E source \in Texts \cup {NoText}, dest \in Texts \cup {NoText} :
         /\ argv.sdkconfig = "" => source = NoText /\ dest = NoText
         /\ files = [source |-> source, dest |-> dest]
    /\ device = NoDevice
    /\ summary = <<>>
    /\ info = NoInfo
    /\ pc = "start"
    /\ locals = [content |-> NoText, existing_content |-> NoText, previous |-> files.dest,
                 result |-> None, warned |-> FALSE]
    /\ cmds = <<>>
    /\ globs = 0
    /\ exit = NotExited

\* ensure_sdkconfig up to the two reads; an exception ends it with a warning
SdkReadStep ==
    /\ Running /\ pc = "start"
    /\ \E result \in {"ok", "Exception"} :
         IF result = "Exception"
         THEN /\ locals' = [locals EXCEPT !.result = result, !.warned = TRUE]
              /\ pc' = "done" /\ exit' = 0
         ELSE IF argv.sdkconfig = ""
         THEN /\ locals' = [locals EXCEPT !.result = "no source"]
              /\ pc' = "done" /\ exit' = 0
         ELSE IF ~files.source.exists
         THEN /\ locals' = [locals EXCEPT !.result = "not found"]
              /\ pc' = "done" /\ exit' = 0
         ELSE /\ locals' = [locals EXCEPT
                               !.content = files.source,
                               !.existing_content =
                                   IF files.dest.exists THEN files.dest ELSE EmptyText]
              /\ pc' = "write" /\ exit' = exit
    /\ UNCHANGED <<argv, files, device, summary, info, cmds, globs>>

\* `with open(sdkconfig_dest_path, "w") as f:` and the print; open may raise
\* (destination untouched), a write may raise (destination truncated, with or
\* without the content written before)
SdkWriteStep ==
    /\ Running /\ pc = "write"
    /\ \E result \in {"ok", "open raised", "write raised"},
          order \in Orders(AdditionalLines(locals.content, locals.existing_content)),
          partial \in {EmptyText, locals.content} :
         /\ result # "write raised" => partial = EmptyText
         /\ files' = [files EXCEPT !.dest =
                         CASE result = "ok" -> Merged(locals.content, locals.existing_content, order)
                           [] result = "open raised" -> @
                           [] OTHER -> partial]
         /\ locals' = [locals EXCEPT !.result = IF result = "ok" THEN "copied" ELSE result,
                                     !.warned = result # "ok"]
    /\ pc' = "done"
    /\ exit' = 0
    /\ UNCHANGED <<argv, device, summary, info, cmds, globs>>

NextSdk ==
    \/ SdkReadStep
    \/ SdkWriteStep

SpecSdk == InitSdk /\ [][NextSdk]_vars

SdkDone == pc = "done"
SdkCopied == SdkDone /\ locals.result = "copied"
SdkRaised == SdkDone /\ locals.result \in {"Exception", "open raised", "write raised"}
PreviousOnly == AdditionalLines(files.source, locals.previous)
After(n) == SubSeq(files.dest.lines, n + 1, Len(files.dest.lines))

\* C29 as stated: after a merge with an existing source the destination is
\* the lines of the source followed only by the lines of the previous
\* destination that do not occur in the source; an exception ends in a
\* warning and the script still ends normally.
C29_MergeSourceThenDestinationLines ==
    /\ SdkCopied =>
         /\ Len(files.dest.lines) >= Len(files.source.lines)
         /\ SubSeq(files.dest.lines, 1, Len(files.source.lines)) = files.source.lines
         /\ Range(After(Len(files.source.lines))) = PreviousOnly
    /\ SdkRaised => locals.warned /\ exit = 0

\* the separator: one empty line after a source that ends with a newline (or
\* is empty), when there are lines to append
Separator ==
    IF PreviousOnly # {} /\ (files.source.nl \/ files.source.lines = <<>>) THEN <<"">> ELSE <<>>

(***************************************************************************)
(* C29: after a merge with an existing source file the destination is the  *)
(* complete source content, then - only when the previous destination had  *)
(* lines that do not occur in the source - a newline (an empty line when   *)
(* the source ends with a newline) followed by exactly those lines, each   *)
(* once and each ended by a newline, in any order; an exception ends in a  *)
(* warning and the script still ends normally.                             *)
(***************************************************************************)
C29_MergeWithSeparator ==
    /\ SdkCopied =>
         /\ Len(files.dest.lines) =
                Len(files.source.lines) + Len(Separator) + Cardinality(PreviousOnly)
         /\ SubSeq(files.dest.lines, 1, Len(files.source.lines)) = files.source.lines
         /\ SubSeq(After(Len(files.source.lines)), 1, Len(Separator)) = Separator
         /\ Range(After(Len(files.source.lines) + Len(Separator))) = PreviousOnly
         /\ files.dest.nl = (IF PreviousOnly = {} THEN files.source.nl ELSE TRUE)
    /\ SdkRaised => locals.warned /\ exit = 0
    /\ SdkDone => exit = 0

\* reached: two lines of the previous destination were appended after a
\* source that ends with a newline
C29_Witness ==
    /\ SdkCopied
    /\ files.source = Text(<<"CONFIG_A=y">>, TRUE)
    /\ locals.previous.lines = <<"CONFIG_B=y", "CONFIG_A=y">>
    /\ files.dest = Text(<<"CONFIG_A=y", "", "CONFIG_B=y">>, TRUE)

\* reached: a write raised after the destination was truncated
C29_WitnessException ==
    /\ SdkRaised /\ locals.warned /\ exit = 0
    /\ locals.previous.lines # <<>> /\ files.dest = EmptyText

(***************************************************************************)
(* C30: once the burn-key command of burn_secure_boot is over, on success, *)
(* nonzero exit or timeout, its temporary digest file is gone; once the    *)
(* sign step is over, whatever the commands of verify_signature did, no    *)
(* temporary public-key file is left.                                      *)
(***************************************************************************)
BurnKeyInvoked == "burn-key" \in Range(cmds)
VerifyCommandInvoked ==
    \E i \in 1..Len(cmds) : cmds[i] \in {"extract_public_key", "verify_signature bootloader",
                                         "verify_signature firmware"}

C30_WitnessBurned ==
    /\ BurnKeyInvoked /\ locals.burn_failed = None /\ device.key_block = "written"
    /\ locals.tmp = {}

(***************************************************************************)
(* Two runs of one burn script against the same device.  Every variable    *)
(* that belongs to a process (pc, info, locals, exit) is a function of the *)
(* run; the device and the log of invoked commands are shared.  Each run   *)
(* starts after its key, port and pre-burn checks have passed, at          *)
(* show_device_info.  Nothing in either script takes a lock or looks at    *)
(* the other run.                                                          *)
(***************************************************************************)
Runs == {1, 2}
RaceLocals == [has_key |-> None, response |-> NoResponse]
RaceLog(run, cmd) == Append(cmds, [run |-> run, cmd |-> cmd])

InitRace ==
    /\ \E script \in {"burn_secure_boot", "burn_flash_encryption"} :
         argv = [NoArgs(script) EXCEPT !.port = "/dev/ttyUSB0"]
    /\ files = [NoFiles EXCEPT !.devs = {"/dev/ttyUSB0"}]
    /\ \E sb \in BOOLEAN, kb \in {"empty", "written"}, fc \in BOOLEAN :
         /\ argv.script = "burn_flash_encryption" => ~sb /\ kb = "empty"
         /\ argv.script = "burn_secure_boot" => ~fc
         /\ device = [secure_boot_en |-> sb, key_block |-> kb, flash_crypt |-> fc]
    /\ summary = <<>>
    /\ info = [r \in Runs |-> NoInfo]
    /\ pc = [r \in Runs |-> "device_state"]
    /\ locals = [r \in Runs |-> RaceLocals]
    /\ cmds = <<>>
    /\ globs = 0
    /\ exit = [r \in Runs |-> NotExited]

\* show_device_info(port) of run r and the "already enabled" exit of
\* burn_flash_encryption
RaceDeviceStateStep(r) ==
    /\ exit[r] = NotExited /\ pc[r] = "device_state"
    /\ \E result \in DeviceOutcomes(argv.port, TRUE) :
         LET state == ShowDeviceInfo(result, SummaryText(device))
             code == IF state.status # "return" THEN 1
                     ELSE IF argv.script = "burn_flash_encryption" /\ state.flash_encryption = PyTrue
                     THEN 0
                     ELSE NotExited
         IN  /\ info' = [info EXCEPT ![r] = state]
             /\ exit' = [exit EXCEPT ![r] = code]
             /\ pc' = [pc EXCEPT ![r] = IF code # NotExited THEN @
                                        ELSE IF argv.script = "burn_secure_boot" THEN "key_block"
                                        ELSE "confirm"]
    /\ cmds' = RaceLog(r, "summary")
    /\ UNCHANGED <<argv, files, device, summary, locals, globs>>

\* burn_secure_boot of run r: dump_blocks BLOCK_KEY0 and the "already fully
\* enabled" exit
RaceKeyBlockStep(r) ==
    /\ exit[r] = NotExited /\ pc[r] = "key_block"
    /\ \E result \in DeviceOutcomes(argv.port, TRUE) :
         LET has_key == IF result = "ok" THEN HasKey(DumpText(device))
                        ELSE IF result = "nonzero" THEN HasKey(<<>>)
                        ELSE None
             done == info[r].secure_boot_enabled = PyTrue /\ has_key = PyTrue
         IN  /\ locals' = [locals EXCEPT ![r].has_key = has_key]
             /\ exit' = [exit EXCEPT ![r] = IF done THEN 0 ELSE @]
             /\ pc' = [pc EXCEPT ![r] = IF done THEN @ ELSE "confirm"]
    /\ cmds' = RaceLog(r, "dump_blocks")
    /\ UNCHANGED <<argv, files, device, summary, info, globs>>

\* prompt_burn_confirmation() of run r; burn_secure_boot then extracts the
\* digest from the key file, which involves neither the device nor the
\* other run
RaceConfirmStep(r) ==
    /\ exit[r] = NotExited /\ pc[r] = "confirm"
    /\ \E in \in PromptInputs :
         LET answer == PromptBurnConfirmation(in)
         IN  /\ locals' = [locals EXCEPT ![r].response = in]
             /\ exit' = [exit EXCEPT ![r] = IF answer.status = "exit" THEN answer.code ELSE @]
             /\ pc' = [pc EXCEPT ![r] = IF answer.status = "exit" THEN @
                                        ELSE IF argv.script = "burn_secure_boot" THEN "burn_key"
                                        ELSE "burn_flash_crypt"]
    /\ UNCHANGED <<argv, files, device, summary, info, cmds, globs>>

\* RaceBurnStep behind a lock on the device: a run burns only while no
\* other run is between its device-state check and the end of its burn
RaceBurnStep_Exclusive(r) ==
    /\ exit[r] = NotExited
    /\ pc[r] \in {"burn_key", "burn_secure_boot_en", "burn_flash_crypt"}
    /\ \A o \in Runs \ {r} : exit[o] # NotExited \/ pc[o] = "device_state"
    /\ exit' = [exit EXCEPT ![r] = 1]
    /\ UNCHANGED <<argv, files, device, summary, info, pc, locals, cmds, globs>>

\* one burn command of run r: espefuse burn-key BLOCK_KEY0 (refused by the
\* tool when the block is written), burn_efuse SECURE_BOOT_EN, or
\* burn_efuse FLASH_CRYPT_CNT
RaceBurnStep(r) ==
    /\ exit[r] = NotExited
    /\ pc[r] \in {"burn_key", "burn_secure_boot_en", "burn_flash_crypt"}
    /\ \E result \in {"ok", "nonzero"} :
         /\ (pc[r] = "burn_key" /\ result = "ok") => device.key_block = "empty"
         /\ device' = IF result # "ok" THEN device
                      ELSE IF pc[r] = "burn_key" THEN [device EXCEPT !.key_block = "written"]
                      ELSE IF pc[r] = "burn_secure_boot_en" THEN [device EXCEPT !.secure_boot_en = TRUE]
                      ELSE [device EXCEPT !.flash_crypt = TRUE]
         /\ exit' = [exit EXCEPT ![r] = IF result # "ok" THEN 1
                                        ELSE IF pc[r] = "burn_key" THEN @
                                        ELSE 0]
         /\ pc' = [pc EXCEPT ![r] = IF result = "ok" /\ @ = "burn_key"
                                    THEN "burn_secure_boot_en" ELSE @]
    /\ cmds' = RaceLog(r, IF pc[r] = "burn_key" THEN "burn-key"
                          ELSE IF pc[r] = "burn_secure_boot_en" THEN "burn_efuse SECURE_BOOT_EN"
                          ELSE "burn_efuse FLASH_CRYPT_CNT")
    /\ UNCHANGED <<argv, files, summary, info, locals, globs>>

NextRace ==
    \E r \in Runs :
        \/ RaceDeviceStateStep(r)
        \/ RaceKeyBlockStep(r)
        \/ RaceConfirmStep(r)
        \/ RaceBurnStep(r)

SpecRace == InitRace /\ [][NextRace]_vars

(***************************************************************************)
(* C22: no run is held back by the other one.  Whenever a run has passed   *)
(* its device-state check and its prompt and stands before a burn command, *)
(* it can invoke that command, whatever the other run is doing and         *)
(* whatever has happened to the device since the check; so both runs can   *)
(* pass the check before either burns and both then invoke the burn        *)
(* command on the same fuse.                                               *)
(***************************************************************************)
BeforeBurn(r) ==
    /\ exit[r] = NotExited
    /\ pc[r] \in {"burn_key", "burn_secure_boot_en", "burn_flash_crypt"}
RaceInvoked(r, cmd) == \E i \in 1..Len(cmds) : cmds[i] = [run |-> r, cmd |-> cmd]

C22_NoMutualExclusion ==
    \A r \in Runs : BeforeBurn(r) => ENABLED RaceBurnStep(r)

\* reached: both runs of burn_flash_encryption.py read "not enabled" before
\* either burned, and both have invoked burn_efuse FLASH_CRYPT_CNT
C22_Witness ==
    /\ argv.script = "burn_flash_encryption"
    /\ \A r \in Runs : /\ info[r].status = "return"
                       /\ info[r].flash_encryption = PyFalse
                       /\ RaceInvoked(r, "burn_efuse FLASH_CRYPT_CNT")
    /\ Len(cmds) = 4
    /\ cmds[1].cmd = "summary" /\ cmds[2].cmd = "summary"
    /\ cmds[1].run # cmds[2].run

\* reached: both runs of burn_efuse_secure_boot.py passed the check and both
\* have invoked burn-key on BLOCK_KEY0
C22_WitnessSecureBoot ==
    /\ argv.script = "burn_secure_boot"
    /\ \A r \in Runs : RaceInvoked(r, "burn-key") /\ locals[r].has_key = PyFalse

====
